---- MODULE Spec2Model ----
(***************************************************************************)
(* State-machine model of the credential lifecycle of the CEP MCP server:  *)
(* AuthManager (getAuthenticatedClient, refreshToken, clearAuth, the local *)
(* OAuth callback listener, the login timer, the "tokens" listener) on top *)
(* of the credential format bridge and the bound storage backend.          *)
(*                                                                         *)
(* Every action is one run-to-completion segment of the event loop: the    *)
(* code between two awaits of real I/O (storage, network, listener,        *)
(* timer).  Absent / null / undefined / "" string fields are all the       *)
(* empty string "", an absent scope is <<>>, an absent number is 0.        *)
(***************************************************************************)
EXTENDS Integers, Sequences, FiniteSets, TLC

\* ------------------------------------------------------------------ bounds
MaxCalls == 3
MaxTicks == 1
MaxTokenEvents == 1

MaxHCalls == 4

MaxSets == 1
MaxOps == 3

\* Checks of the keychain made on one KeychainTokenStorage.
MaxChecks == 3

\* Callback requests the exchange endpoint handles.
MaxRequests == 1

\* --------------------------------------------------------------- constants
TOKEN_EXPIRY_BUFFER_MS == 5 * 60 * 1000
AUTH_TIMEOUT_MS == 5 * 60 * 1000
MAIN_ACCOUNT_KEY == "main-account"

\* The scopes the AuthManager was constructed with (this.scopes).
scopes == <<"a", "b", "c">>

\* The caller slots: independent callers of the AuthManager's operations.
Procs == {"p1", "p2"}

ClientIds == 1..MaxCalls

\* Number.parseInt of a string without a leading digit.
NaN == -1

\* Values of an optional number field: the field is absent (undefined), or
\* holds null as JSON.parse gives it back.
Undefined == -2
Null == -3

\* ------------------------------------------------------------ data shapes
\* Auth.Credentials of a freshly constructed OAuth2 client: {}.
EmptyCreds ==
  [access_token |-> "", refresh_token |-> "", scope |-> <<>>,
   token_type |-> "", expiry_date |-> Undefined]

\* No entry under MAIN_ACCOUNT_KEY in the bound backend.
NoRec == [absent |-> TRUE]

\* JavaScript truthiness of a number.
Truthy(n) == n \notin {0, NaN, Undefined, Null}

Range(s) == {s[i] : i \in 1..Len(s)}

\* ------------------------------------------------------- pure functions
\* Variant of isTokenExpiringSoon whose comparison includes the boundary.
isTokenExpiringSoon_Inclusive(credentials, t) ==
  Truthy(credentials.expiry_date)
    /\ credentials.expiry_date <= t + TOKEN_EXPIRY_BUFFER_MS

\* AuthManager.isTokenExpiringSoon(credentials) at time t.
isTokenExpiringSoon(credentials, t) ==
  Truthy(credentials.expiry_date)
    /\ credentials.expiry_date < t + TOKEN_EXPIRY_BUFFER_MS

\* Variant of validateCredentials without the check of tokenType.
validateCredentials_NoTokenType(rec) ==
  /\ rec.serverName # ""
  /\ rec.token # NoRec
  /\ (rec.token.accessToken # "" \/ rec.token.refreshToken # "")

\* BaseTokenStorage.validateCredentials: TRUE when it does not throw.
validateCredentials(rec) ==
  /\ rec.serverName # ""
  /\ rec.token # NoRec
  /\ (rec.token.accessToken # "" \/ rec.token.refreshToken # "")
  /\ rec.token.tokenType # ""

\* Variant of mcpCredentials that does not default the tokenType.
mcpCredentials_NoDefault(credentials, t) ==
  [serverName |-> MAIN_ACCOUNT_KEY,
   token |-> [accessToken |-> credentials.access_token,
              refreshToken |-> credentials.refresh_token,
              tokenType |-> credentials.token_type,
              scope |-> credentials.scope,
              expiresAt |-> IF Truthy(credentials.expiry_date)
                              THEN credentials.expiry_date ELSE Undefined],
   updatedAt |-> t]

\* saveCredentials: the OAuthCredentials record built from Google credentials.
\* NaN || undefined is undefined, so a NaN expiry is stored as absent.
mcpCredentials(credentials, t) ==
  [serverName |-> MAIN_ACCOUNT_KEY,
   token |-> [accessToken |-> credentials.access_token,
              refreshToken |-> credentials.refresh_token,
              tokenType |-> IF credentials.token_type # ""
                              THEN credentials.token_type ELSE "Bearer",
              scope |-> credentials.scope,
              expiresAt |-> IF Truthy(credentials.expiry_date)
                              THEN credentials.expiry_date ELSE Undefined],
   updatedAt |-> t]

\* loadCredentials on the stored entry: the Google credentials, or NoRec
\* for null.
googleCreds(rec) ==
  IF rec = NoRec \/ rec.token = NoRec
    THEN NoRec
    ELSE [access_token |-> rec.token.accessToken,
          refresh_token |-> rec.token.refreshToken,
          token_type |-> rec.token.tokenType,
          scope |-> rec.token.scope,
          expiry_date |-> IF Truthy(rec.token.expiresAt)
                            THEN rec.token.expiresAt ELSE Undefined]

\* Variant of missingScopes that looks at the first required scope only.
missingScopes_FirstOnly(credentials) ==
  {s \in {scopes[1]} : s \notin Range(credentials.scope)}

\* loadCachedCredentials: the required scopes missing from a scope string
\* (split on " ", collected into a Set).
missingScopes(credentials) ==
  {s \in Range(scopes) : s \notin Range(credentials.scope)}

\* The character "-" of a string given as its characters.
MinusSign == 11

\* Number.parseInt(str, 10) on a string given as its characters (0..9 the
\* decimal digits, MinusSign, a larger number any other character): the
\* value of the leading decimal digits after an optional sign, NaN when
\* there is none.
RECURSIVE DigitsValue(_, _)
DigitsValue(s, acc) ==
  IF s = <<>> \/ Head(s) > 9
    THEN acc
    ELSE DigitsValue(Tail(s), 10 * acc + Head(s))

parseInt(s) ==
  IF s # <<>> /\ Head(s) = MinusSign
    THEN IF Tail(s) = <<>> \/ Head(Tail(s)) > 9
           THEN NaN ELSE 0 - DigitsValue(Tail(s), 0)
    ELSE IF s = <<>> \/ Head(s) > 9 THEN NaN ELSE DigitsValue(s, 0)

\* ------------------------------------------------------------------ state
VARIABLES
  client,      \* AuthManager.client: a client id, 0 for null
  clients,     \* credentials of every OAuth2 client object, by id
  store,       \* the MAIN_ACCOUNT_KEY entry of the bound backend, or NoRec
  backend,     \* TokenStorageType the HybridTokenStorage is bound to
  now,         \* Date.now()
  nCalls,      \* operations started so far (one client id per operation)
  pr,          \* per caller: position and locals of the operation in flight
  lis,         \* per client id: the callback listener of its login attempt
  tev,         \* the "tokens" listener invocation in flight
  nTev,        \* "tokens" events emitted so far
  published,   \* the in-memory client, once handed to a caller
  sinceClear,  \* history: a clearAuth() returned and no
               \* getAuthenticatedClient() has started since
  hy,          \* the HybridTokenStorage: its initialization and its callers
  ts,          \* a TokenStorage backend used directly: its entries and the
               \* caller of its setCredentials and getCredentials
  lg,          \* interactive logins seen from the network: the environment,
               \* the ports listened on, each caller's listener and state
  kc,          \* a KeychainTokenStorage: its cached self-test and its callers
  cf           \* the token-exchange endpoint: the callback request it handles

vars ==
  <<client, clients, store, backend, now, nCalls, pr, lis, tev, nTev,
    published, sinceClear, hy, ts, lg, kc, cf>>

\* No request handled.
NoReq ==
  [path |-> "", state |-> -1, error |-> "", access_token |-> "",
   expiry_date |-> <<>>, refresh_token |-> "", scope |-> <<>>,
   token_type |-> ""]

\* A caller with no operation in flight.  Position and locals: pc (the await
\* it is at), top (the operation called), site (the tryProactiveRefresh site
\* it is inside), cli (its oAuth2Client), curRT
\* (currentCredentials.refresh_token), merged (the credentials handed to
\* saveCredentials), deadline (of its login timer), res and ret (outcome and
\* returned client).  The other fields are history, read by the properties
\* only: what the operation found when it started and when it began to wait,
\* what it loaded, the request and the refresh body it got, and what it
\* did.
Idle ==
  [pc |-> "idle", top |-> "none", site |-> "none", cli |-> 0, curRT |-> "",
   merged |-> EmptyCreds, deadline |-> 0, res |-> "none", ret |-> 0,
   mark |-> FALSE, usedLogin |-> FALSE, attempts |-> 0, rtOk |-> FALSE,
   gacOk |-> FALSE, cbSet |-> FALSE, tpFailed |-> FALSE,
   startClient |-> 0, startCreds |-> EmptyCreds, startStore |-> NoRec,
   waitClient |-> 0, waitCreds |-> EmptyCreds, waitStore |-> NoRec,
   loaded |-> NoRec, req |-> NoReq, respRT |-> "",
   sent |-> 0]          \* history: its requests to the refresh route

TevIdle ==
  [st |-> "idle", tokens |-> EmptyCreds,
   ev |-> EmptyCreds,   \* history: the tokens the last event carried
   before |-> NoRec,    \* history: the entry stored when it was emitted
   err |-> "none"]      \* history: what the listener's catch logged

\* --------------------------------------------- AuthManager, synchronous parts
\* Each operator below is the code that runs without yielding from one point
\* of AuthManager on: me is the caller's record, c the value of this.client
\* and cl the clients' credentials at that point.  The result is the caller's
\* record at the next await (or at its end) and the value of this.client.

\* A getAuthenticatedClient() that throws: a refreshToken() awaiting it
\* (bootstrap) rejects with the same error.
GacReject(me, c, err) ==
  [me |-> [me EXCEPT !.pc = "done", !.res = err, !.site = "none"],
   client |-> c]

\* Variant of RefreshThrow whose catch block keeps this.client.
RefreshThrow_KeepClient(me, c, s, err) ==
  IF s = "none"
    THEN [me |-> [me EXCEPT !.pc = "done", !.res = err, !.site = "none"],
          client |-> c]
    ELSE [me |-> [me EXCEPT !.pc = "tp_del", !.site = s], client |-> c]

\* Variant of RefreshThrow that drops this.client on a direct call too.
RefreshThrow_DropClient(me, c, s, err) ==
  IF s = "none"
    THEN [me |-> [me EXCEPT !.pc = "done", !.res = err, !.site = "none"],
          client |-> 0]
    ELSE [me |-> [me EXCEPT !.pc = "tp_del", !.site = s], client |-> 0]

\* refreshToken() throws at site s: a direct call rejects; inside
\* tryProactiveRefresh the catch block drops the client and awaits
\* clearCredentials().
RefreshThrow(me, c, s, err) ==
  IF s = "none"
    THEN [me |-> [me EXCEPT !.pc = "done", !.res = err, !.site = "none"],
          client |-> c]
    ELSE [me |-> [me EXCEPT !.pc = "tp_del", !.site = s], client |-> 0]

\* Variant of BeginRefresh without the test of the refresh token.
BeginRefresh_NoCheck(me, c, cl, s) ==
  [me |-> [me EXCEPT !.pc = "r_fetch", !.site = s,
                     !.curRT = cl[c].refresh_token,
                     !.sent = @ + 1],
   client |-> c]

\* refreshToken() from the copy of this.client.credentials up to the fetch.
BeginRefresh(me, c, cl, s) ==
  IF cl[c].refresh_token = ""
    THEN RefreshThrow([me EXCEPT !.tpFailed = (@ \/ s # "none")], c, s,
                      "no_refresh_token")
    ELSE [me |-> [me EXCEPT !.pc = "r_fetch", !.site = s,
                            !.curRT = cl[c].refresh_token,
                            !.sent = @ + 1],
          client |-> c]

tryProactiveRefresh(me, c, cl, s) ==
  BeginRefresh([me EXCEPT !.attempts = @ + 1], c, cl, s)

\* getAuthenticatedClient() returns r.  A refreshToken() that awaited it
\* assigns r to this.client and goes on.
GacReturn(me, c, cl, r) ==
  IF me.top = "gac"
    THEN [me |-> [me EXCEPT !.pc = "done", !.res = "ok", !.ret = r,
                            !.site = "none", !.gacOk = TRUE],
          client |-> c]
    ELSE BeginRefresh([me EXCEPT !.gacOk = TRUE], r, cl, "none")

\* new OAuth2 client, "tokens" listener registered, loadCachedCredentials
\* awaits loadCredentials().
GacStorage(me, c) ==
  [me |-> [me EXCEPT !.pc = "g_load", !.site = "none"], client |-> c]

\* authWithWeb awaits getAvailablePort().
authWithWeb(me, c) ==
  [me |-> [me EXCEPT !.pc = "g_port", !.site = "none", !.usedLogin = TRUE],
   client |-> c]

\* getAuthenticatedClient() after `await this.tryProactiveRefresh()`.
AfterProactive(me, c, cl) ==
  IF c # 0
    THEN GacReturn(me, c, cl, c)
    ELSE IF me.site = "fast" THEN GacStorage(me, c) ELSE authWithWeb(me, c)

\* Variant of getAuthenticatedClient that refreshes every cached client.
getAuthenticatedClient_AlwaysRefresh(me, c, cl) ==
  IF c # 0 /\ cl[c].refresh_token # ""
    THEN tryProactiveRefresh(me, c, cl, "fast")
    ELSE GacStorage(me, c)

\* getAuthenticatedClient() from its first line.
getAuthenticatedClient(me, c, cl) ==
  IF c # 0 /\ cl[c].refresh_token # ""
    THEN IF isTokenExpiringSoon(cl[c], now)
           THEN tryProactiveRefresh(me, c, cl, "fast")
           ELSE GacReturn(me, c, cl, c)
    ELSE GacStorage(me, c)

\* After `await clearCredentials()` resolved, by the site that awaited it.
AfterDelete(me, c, cl) ==
  CASE me.pc \in {"c_del", "c_unlink"} ->
         [me |-> [me EXCEPT !.pc = "done", !.res = "ok"], client |-> c]
    [] me.pc \in {"tp_del", "tp_unlink"} -> AfterProactive(me, c, cl)
    [] me.pc \in {"g_scope_del", "g_scope_unlink"} -> authWithWeb(me, c)

\* `await clearCredentials()` rejected: no site catches it.
DeleteThrew(me, c) ==
  [me |-> [me EXCEPT !.pc = "done", !.res = "not_found", !.site = "none"],
   client |-> c]

\* ------------------------------------------------------------ environment
\* Scope strings the environment hands out: one lacks the required "c".
FullScope == <<"a", "b", "c">>
PartScope == <<"a", "b">>

\* expiry_date values: inside the buffer at time 0, and inside it only
\* once AUTH_TIMEOUT_MS has passed.  An absent expiry_date never expires.
ExpSoon == TOKEN_EXPIRY_BUFFER_MS - 1
ExpLater == TOKEN_EXPIRY_BUFFER_MS + 200000

Creds(at, rt, sc, tt, e) ==
  [access_token |-> at, refresh_token |-> rt, scope |-> sc,
   token_type |-> tt, expiry_date |-> e]

\* What a previous run of the process can have left under MAIN_ACCOUNT_KEY.
InitialStores ==
  {NoRec,
   mcpCredentials(Creds("tok0", "r0", FullScope, "Bearer", ExpSoon), 0),
   mcpCredentials(Creds("tok0", "r0", FullScope, "Bearer", ExpLater), 0),
   mcpCredentials(Creds("tok0", "r0", PartScope, "Bearer", ExpLater), 0),
   mcpCredentials(Creds("tok0", "", FullScope, "Bearer", ExpSoon), 0)}

\* A request reaching the listener of login attempt c.  state is the CSRF
\* token of an attempt (the token of attempt k is k), 0 when absent.
\* expiry_date is the parameter's characters: "299999", "500000", "x".
Request(path, st, err, at, exp, rt, sc, tt) ==
  [path |-> path, state |-> st, error |-> err, access_token |-> at,
   expiry_date |-> exp, refresh_token |-> rt, scope |-> sc, token_type |-> tt]

StrSoon == <<2, 9, 9, 9, 9, 9>>
StrLater == <<5, 0, 0, 0, 0, 0>>

Requests(c) ==
  {Request("/oauth2callback", c, "", "tok1", e, r, FullScope, "Bearer") :
     e \in {StrSoon, StrLater}, r \in {"", "r1"}}
  \cup {Request("/oauth2callback", c, "", "tok1", StrLater, "r1", PartScope, ""),
        Request("/oauth2callback", c, "", "tok1", <<10>>, "r1", <<>>, "Bearer")}
  \cup {Request("/oauth2callback", k, "", "tok1", StrLater, "r1", FullScope,
                "Bearer") : k \in (0..MaxCalls) \ {c}}
  \cup {Request("/favicon.ico", c, "", "", <<>>, "", <<>>, ""),
        Request("/oauth2callback", c, "access_denied", "", <<>>, "", <<>>, ""),
        Request("/oauth2callback", 0, "access_denied", "", <<>>, "", <<>>, ""),
        Request("/oauth2callback", c, "", "", StrLater, "r1", FullScope,
                "Bearer"),
        Request("/oauth2callback", c, "", "tok1", <<>>, "r1", FullScope, "")}

\* The 2xx bodies of POST /refreshToken: with no refresh_token or with a
\* new one.
RefreshBodies ==
  {Creds("tok2", r, FullScope, "Bearer", e) : r \in {"", "r2"}, e \in {Undefined, ExpSoon}}

\* The tokens a client emits with its "tokens" event.
EventTokens == {Creds("tok3", "", FullScope, "Bearer", ExpLater)}

\* ------------------------------------------------------- callback handler
\* Variant of HandlerOutcome without the comparison of state and csrfToken.
HandlerOutcome_NoStateCheck(c, req) ==
  IF req.path # "/oauth2callback" THEN "unexpected_request"
  ELSE IF req.error # "" THEN "provider_error"
  ELSE IF req.access_token = "" \/ req.expiry_date = <<>> THEN "no_tokens"
  ELSE "resolved"

\* Variant of HandlerOutcome that looks for the tokens before the error
\* parameter.
HandlerOutcome_TokensFirst(c, req) ==
  IF req.path # "/oauth2callback" THEN "unexpected_request"
  ELSE IF req.state # c THEN "csrf_mismatch"
  ELSE IF req.access_token = "" \/ req.expiry_date = <<>> THEN "no_tokens"
  ELSE IF req.error # "" THEN "provider_error"
  ELSE "resolved"

\* The request handler of authWithWeb for the listener of attempt c: how it
\* settles loginCompletePromise.
HandlerOutcome(c, req) ==
  IF req.path # "/oauth2callback" THEN "unexpected_request"
  ELSE IF req.state # c THEN "csrf_mismatch"
  ELSE IF req.error # "" THEN "provider_error"
  ELSE IF req.access_token = "" \/ req.expiry_date = <<>> THEN "no_tokens"
  ELSE "resolved"

\* Variant of HandlerTokens that leaves the access_token out.
HandlerTokens_NoAccessToken(req) ==
  [access_token |-> "",
   refresh_token |-> req.refresh_token,
   scope |-> req.scope,
   token_type |-> IF req.token_type = "Bearer" THEN "Bearer" ELSE "",
   expiry_date |-> parseInt(req.expiry_date)]

\* The tokens the handler sets on the client.
HandlerTokens(req) ==
  [access_token |-> req.access_token,
   refresh_token |-> req.refresh_token,
   scope |-> req.scope,
   token_type |-> IF req.token_type = "Bearer" THEN "Bearer" ELSE "",
   expiry_date |-> parseInt(req.expiry_date)]

\* Variant of mergedCredentials that takes the body's refresh_token when it
\* has one.
mergedCredentials_TrustBody(newTokens, currentRefreshToken) ==
  [newTokens EXCEPT !.refresh_token =
     IF newTokens.refresh_token # "" THEN newTokens.refresh_token
     ELSE currentRefreshToken]

\* refreshToken(): the credentials merged from a 2xx body.
mergedCredentials(newTokens, currentRefreshToken) ==
  [newTokens EXCEPT !.refresh_token = currentRefreshToken]

\* A listener that saves the event's tokens as they are.
mergedTokens_NoPreserve(tokens, current) == tokens

\* "tokens" listener: the credentials merged from an event and the stored
\* entry (loadCredentials() || {}).
mergedTokens(tokens, current) ==
  [tokens EXCEPT !.refresh_token =
     IF tokens.refresh_token # "" THEN tokens.refresh_token
     ELSE IF current = NoRec THEN "" ELSE current.refresh_token]

\* ------------------------------------------- interactive login, the network
\* The callers of getAuthenticatedClient() that reach the interactive login.
LProcs == {"l1", "l2"}

\* The csrfToken of a caller's attempt (crypto.randomBytes(32), here the
\* number of the caller) and its length in hex digits.
Csrf(q) == IF q = "l1" THEN 1 ELSE 2
CsrfLength == 64

\* OAUTH_CALLBACK_PORT as its characters: unset, "8080", "0", "65535",
\* "65536", "abc", "8080abc", "-5".
PortStrs ==
  {<<>>, <<8, 0, 8, 0>>, <<0>>, <<6, 5, 5, 3, 5>>, <<6, 5, 5, 3, 6>>,
   <<12>>, <<8, 0, 8, 0, 12>>, <<MinusSign, 5>>}

\* The ports the operating system can give to listen(0).
EphemeralPorts == {49152, 49153}

\* OAUTH_CALLBACK_HOST || "localhost".
Hosts == {"localhost", "127.0.0.1", "devbox.example"}

\* The number of characters of a host name and of a port in decimal.
HostLength(h) ==
  CASE h = "localhost" -> 9
    [] h = "127.0.0.1" -> 9
    [] h = "LOCALHOST" -> 9
    [] h = "devbox.example" -> 14
    [] h = "localhost.evil.example" -> 22
    [] OTHER -> 0

PortLength(n) ==
  IF n < 10 THEN 1 ELSE IF n < 100 THEN 2 ELSE IF n < 1000 THEN 3
  ELSE IF n < 10000 THEN 4 ELSE 5

\* A decimal string is an integer when every character is a digit.
IsIntegerString(str) ==
  str # <<>> /\ \A i \in 1..Len(str) : str[i] <= 9

\* Variant of invalidPort that accepts every number.
invalidPort_OnlyNaN(port) == port = NaN

\* getAvailablePort() with OAUTH_CALLBACK_PORT set: the test that rejects the
\* parsed port.
invalidPort(port) == port = NaN \/ port <= 0 \/ port > 65535

\* localRedirectUri: `http://${host}:${port}/oauth2callback`.
NoUri == [absent |-> TRUE]
Uri(h, n, path) == [host |-> h, port |-> n, path |-> path, parses |-> TRUE]
localRedirectUri(h, n) == Uri(h, n, "/oauth2callback")

\* Variant of statePayload that carries the redirect URI without a browser
\* too.
statePayload_AlwaysUri(h, n, isGuiAvailable, csrf) ==
  [uri |-> localRedirectUri(h, n), manual |-> FALSE, csrf |-> csrf]

\* statePayload of authWithWeb; uri is undefined without a browser.
statePayload(h, n, isGuiAvailable, csrf) ==
  [uri |-> IF isGuiAvailable THEN localRedirectUri(h, n) ELSE NoUri,
   manual |-> ~isGuiAvailable,
   csrf |-> csrf]

\* The JSON literal of a boolean.
JsonBool(b) == IF b THEN "true" ELSE "false"

\* JSON.stringify of a payload: a key whose value is undefined is left out.
\* The text is kept as the object it denotes and its length in characters.
jsonStringify(payload) ==
  [obj |-> IF payload.uri = NoUri
             THEN [manual |-> JsonBool(payload.manual), csrf |-> payload.csrf]
             ELSE [uri |-> payload.uri, manual |-> JsonBool(payload.manual),
                   csrf |-> payload.csrf],
   chars |-> IF payload.uri = NoUri
               THEN 25 + CsrfLength
               ELSE 58 + HostLength(payload.uri.host)
                       + PortLength(payload.uri.port) + CsrfLength]

\* Buffer.from(text).toString("base64"): four characters for every three
\* bytes, the last group padded.
base64Encode(text) ==
  [kind |-> "base64", of |-> text.obj,
   length |-> 4 * ((text.chars + 2) \div 3)]

\* The state query parameter authWithWeb puts in the authorization URL.
stateOf(h, n, isGuiAvailable, csrf) ==
  base64Encode(jsonStringify(statePayload(h, n, isGuiAvailable, csrf)))

\* JSON.parse(Buffer.from(state, "base64").toString("utf8")): the value the
\* text denotes, or Throws when the text is not JSON.
NoState == [absent |-> TRUE]
Throws == [throws |-> TRUE]
JsonNull == [null |-> TRUE]
decodeState(state) ==
  IF state.kind = "base64" THEN state.of ELSE Throws

\* URL.hostname of a parsed URL: the host in lower case.
hostname(uri) ==
  IF uri.host = "LOCALHOST" THEN "localhost" ELSE uri.host

\* ------------------------------------------------ token-exchange endpoint
\* The limit of handleCallback on state.length.
MaxStateLength == 4096

\* The tokens of a successful exchange, as the query parameters of the
\* redirect.
ExchangedTokens ==
  [access_token |-> "tok1", refresh_token |-> "r1", scope |-> FullScope,
   token_type |-> "Bearer", expiry_date |-> StrLater]

EmptyUri == [empty |-> TRUE]

\* Variant of redirectTarget without the test of the hostname.
redirectTarget_AnyHost(state) ==
  IF state = NoState THEN NoUri
  ELSE IF state.length > MaxStateLength THEN NoUri
  ELSE LET payload == decodeState(state)
       IN IF payload \in {Throws, JsonNull} THEN NoUri
          ELSE IF ~("manual" \in DOMAIN payload /\ payload.manual = "false")
            THEN NoUri
          ELSE IF "uri" \notin DOMAIN payload \/ payload.uri = EmptyUri
            THEN NoUri
          ELSE IF ~payload.uri.parses THEN NoUri
          ELSE payload.uri

\* handleCallback, the block `if (state) { try { ... } catch { } }`: the URL
\* it redirects to, or NoUri when it falls through to the manual page.
redirectTarget(state) ==
  IF state = NoState THEN NoUri
  ELSE IF state.length > MaxStateLength THEN NoUri
  ELSE LET payload == decodeState(state)
       IN IF payload \in {Throws, JsonNull} THEN NoUri
          ELSE IF ~("manual" \in DOMAIN payload /\ payload.manual = "false")
            THEN NoUri
          ELSE IF "uri" \notin DOMAIN payload \/ payload.uri = EmptyUri
            THEN NoUri
          ELSE IF ~payload.uri.parses THEN NoUri
          ELSE IF hostname(payload.uri) \notin {"localhost", "127.0.0.1"}
            THEN NoUri
          ELSE payload.uri

\* handleCallback(req, res): the response for a request with the given code
\* and state whose token exchange succeeds or fails.
handleCallback(code, state, exchanged) ==
  IF code = "" THEN [status |-> 400, kind |-> "error"]
  ELSE IF ~exchanged THEN [status |-> 500, kind |-> "error"]
  ELSE LET to == redirectTarget(state)
       IN IF to = NoUri
            THEN [status |-> 200, kind |-> "manual_page",
                  credentials |-> ExchangedTokens]
            ELSE [status |-> 302, kind |-> "redirect",
                  location |->
                    [host |-> hostname(to), port |-> to.port,
                     path |-> to.path,
                     tokens |-> ExchangedTokens,
                     state |-> IF "csrf" \in DOMAIN decodeState(state)
                                    /\ decodeState(state).csrf # 0
                                 THEN decodeState(state).csrf ELSE 0]]

\* The request the browser sends to the local listener when it follows a
\* redirect of handleCallback.
followRedirect(location) ==
  Request(location.path, location.state, "", location.tokens.access_token,
          location.tokens.expiry_date, location.tokens.refresh_token,
          location.tokens.scope, location.tokens.token_type)

\* The variables the steps of the interactive login leave alone, with backend
\* and hy.
AuthVarsButLg ==
  <<client, clients, store, now, nCalls, pr, lis, tev, nTev, published,
    sinceClear, ts, kc, cf>>

\* The variables the steps of the exchange endpoint leave alone, with backend
\* and hy.
AuthVarsButCf ==
  <<client, clients, store, now, nCalls, pr, lis, tev, nTev, published,
    sinceClear, ts, lg, kc>>

\* A request to the callback route of the exchange endpoint: its code and
\* state parameters, and the response once it is sent.  exchanged is
\* history: the token exchange of the request succeeded.
CfIdle ==
  [pc |-> "idle", code |-> "", state |-> NoState,
   response |-> [kind |-> "none"], n |-> 0, exchanged |-> FALSE]

\* The payloads a state can decode to: what authWithWeb builds, and what
\* anybody else can put in the parameter.
PayloadUris ==
  {localRedirectUri(h, 8080) :
     h \in {"localhost", "127.0.0.1", "LOCALHOST", "devbox.example",
            "localhost.evil.example"}}
  \cup {EmptyUri, [localRedirectUri("localhost", 8080) EXCEPT !.parses = FALSE]}

Payloads ==
  {JsonNull}
  \cup {[manual |-> m, csrf |-> c] : m \in {"true", "false"}, c \in {0, 1}}
  \cup {[uri |-> u, csrf |-> c] : u \in PayloadUris, c \in {0, 1}}
  \cup {[uri |-> u, manual |-> m, csrf |-> c] :
          u \in PayloadUris, m \in {"true", "false", "\"false\""},
          c \in {0, 1}}
  \cup {[uri |-> u, manual |-> "false"] : u \in PayloadUris}

\* The state parameters: absent, not base64 of JSON, and the encodings of the
\* payloads at the length authWithWeb produces, at the limit and above it.
StateParams ==
  {NoState, [kind |-> "garbage", length |-> 12]}
  \cup {[kind |-> "base64", of |-> o, length |-> n] :
          o \in Payloads, n \in {184, MaxStateLength, MaxStateLength + 1}}

\* A callback request arrives.
CfRequest(code, state) ==
  /\ cf.pc = "idle"
  /\ cf.n < MaxRequests
  /\ cf' = [pc |-> "exchange", code |-> code, state |-> state,
            response |-> [kind |-> "none"], n |-> cf.n + 1,
            exchanged |-> FALSE]
  /\ UNCHANGED <<AuthVarsButCf, backend, hy>>

\* The token exchange answers or fails, and the response is sent.
CfRespond(exchanged) ==
  /\ cf.pc = "exchange"
  /\ cf' = [cf EXCEPT !.pc = "sent",
                      !.response = handleCallback(cf.code, cf.state, exchanged),
                      !.exchanged = cf.code # "" /\ exchanged]
  /\ UNCHANGED <<AuthVarsButCf, backend, hy>>

\* The endpoint is ready for the next request.
CfDone ==
  /\ cf.pc = "sent"
  /\ cf' = [cf EXCEPT !.pc = "idle"]
  /\ UNCHANGED <<AuthVarsButCf, backend, hy>>

\* ------------------------------------------------- interactive login, steps
\* A caller of the interactive login: pc (where it is), port and state (of
\* its authWithWeb), listener (its HTTP server), login (how
\* loginCompletePromise settled), opened (open(authUrl) returned), browser
\* (what the user's browser got from the exchange endpoint), res (how its
\* getAuthenticatedClient() ended).  peerOpen is history: a listener of the
\* other caller was listening when this one got its port.
LIdle ==
  [pc |-> "idle", port |-> 0, state |-> NoState, listener |-> "none",
   login |-> "pending", opened |-> FALSE, browser |-> [kind |-> "none"],
   res |-> "none", peerOpen |-> FALSE]

LgFresh(portStr, h, isGuiAvailable) ==
  [portStr |-> portStr, host |-> h, gui |-> isGuiAvailable,
   call |-> [q \in LProcs |-> LIdle]]

\* The ports a listener of this process listens on.
BoundPorts(l) ==
  {l.call[q].port : q \in {r \in LProcs : l.call[r].listener = "open"}}

\* authWithWeb once the port is known, up to its return: the state is built
\* and server.listen(port, host) is called; the bind completes later.
Listen(l, q, n) ==
  [l EXCEPT !.call[q] =
     [@ EXCEPT !.pc = "opening", !.port = n, !.listener = "binding",
               !.state = stateOf(l.host, n, l.gui, Csrf(q)),
               !.peerOpen = \E r \in LProcs \ {q} :
                              l.call[r].listener = "open"]]

\* Variant of LStart that takes the override without validating it.
LStart_NoValidation(q) ==
  /\ lg.call[q].pc = "idle" /\ lg.call[q].res = "none"
  /\ lg' = IF lg.portStr # <<>>
             THEN Listen(lg, q, parseInt(lg.portStr))
             ELSE [lg EXCEPT !.call[q].pc = "checkbind"]
  /\ UNCHANGED <<AuthVarsButLg, backend, hy>>

\* getAuthenticatedClient() reaches authWithWeb: getAvailablePort() resolves
\* or rejects at once with OAUTH_CALLBACK_PORT set, and otherwise waits for
\* its check-bind.
LStart(q) ==
  /\ lg.call[q].pc = "idle" /\ lg.call[q].res = "none"
  /\ lg' = IF lg.portStr # <<>>
             THEN IF invalidPort(parseInt(lg.portStr))
                    THEN [lg EXCEPT !.call[q].pc = "done",
                                    !.call[q].res = "invalid_port"]
                    ELSE Listen(lg, q, parseInt(lg.portStr))
             ELSE [lg EXCEPT !.call[q].pc = "checkbind"]
  /\ UNCHANGED <<AuthVarsButLg, backend, hy>>

\* The check-bind of getAvailablePort(): listen(0) gets a port nobody listens
\* on, the server is closed and the port is resolved.
LCheckBind(q, n) ==
  /\ lg.call[q].pc = "checkbind"
  /\ n \notin BoundPorts(lg)
  /\ lg' = Listen(lg, q, n)
  /\ UNCHANGED <<AuthVarsButLg, backend, hy>>

\* server.listen(port, host) completes: the listener listens, or the port is
\* taken and the "error" handler rejects loginCompletePromise.
LBind(q) ==
  /\ lg.call[q].listener = "binding"
  /\ lg' = IF lg.call[q].port \in BoundPorts(lg)
             THEN [lg EXCEPT !.call[q].listener = "error",
                             !.call[q].login = "server_error"]
             ELSE [lg EXCEPT !.call[q].listener = "open"]
  /\ UNCHANGED <<AuthVarsButLg, backend, hy>>

\* `await open(webLogin.authUrl)` returns: the timer is armed and the race
\* awaited.
LOpened(q) ==
  /\ lg.call[q].pc = "opening"
  /\ lg' = [lg EXCEPT !.call[q].pc = "waiting", !.call[q].opened = TRUE]
  /\ UNCHANGED <<AuthVarsButLg, backend, hy>>

\* The user grants consent on the authorization URL: the browser is sent to
\* the exchange endpoint with the code and the state of the URL.
LConsent(q, exchanged) ==
  /\ lg.call[q].opened
  /\ lg.call[q].browser.kind = "none"
  /\ lg' = [lg EXCEPT !.call[q].browser =
              handleCallback("code", lg.call[q].state, exchanged)]
  /\ UNCHANGED <<AuthVarsButLg, backend, hy>>

\* The browser follows the redirect.  The request reaches the listener of
\* this process listening on the port of the location, if there is one: its
\* handler settles that listener's loginCompletePromise and closes it.
LDeliver(q) ==
  /\ lg.call[q].browser.kind = "redirect"
  /\ LET loc == lg.call[q].browser.location
         req == followRedirect(loc)
         at == {r \in LProcs : /\ lg.call[r].listener = "open"
                                /\ lg.call[r].port = loc.port}
     IN lg' = [lg EXCEPT
                 !.call = [r \in LProcs |->
                    LET c0 == IF r = q
                                THEN [lg.call[r] EXCEPT
                                        !.browser = [kind |-> "followed"]]
                                ELSE lg.call[r]
                    IN IF r \in at
                         THEN [c0 EXCEPT
                                 !.listener = "closed",
                                 !.login =
                                   IF c0.login = "pending"
                                     THEN HandlerOutcome(Csrf(r), req)
                                     ELSE c0.login]
                         ELSE c0]]
  /\ UNCHANGED <<AuthVarsButLg, backend, hy>>

\* The race of getAuthenticatedClient() settles with loginCompletePromise.
LSettle(q) ==
  /\ lg.call[q].pc = "waiting"
  /\ lg.call[q].login # "pending"
  /\ lg' = [lg EXCEPT !.call[q].pc = "done",
                      !.call[q].res = IF lg.call[q].login = "resolved"
                                        THEN "ok" ELSE lg.call[q].login]
  /\ UNCHANGED <<AuthVarsButLg, backend, hy>>

\* The race settles with the AUTH_TIMEOUT_MS timer, which fires long after
\* server.listen was answered.
LTimeout(q) ==
  /\ lg.call[q].pc = "waiting"
  /\ lg.call[q].login = "pending"
  /\ lg.call[q].listener # "binding"
  /\ lg' = [lg EXCEPT !.call[q].pc = "done", !.call[q].res = "timeout"]
  /\ UNCHANGED <<AuthVarsButLg, backend, hy>>

\* The variables the steps of the keychain probe leave alone, with backend
\* and hy.
AuthVarsButKc ==
  <<client, clients, store, now, nCalls, pr, lis, tev, nTev, published,
    sinceClear, ts, lg, cf>>

\* ------------------------------------------------- KeychainTokenStorage probe
\* The callers of checkKeychainAvailability() on one KeychainTokenStorage:
\* isAvailable() of the selector, then requireKeytar() of the operations.
\* HybridTokenStorage awaits isAvailable() before it hands the instance to
\* any operation, so a check starts when no other is in flight.
KProcs == {"k1", "k2"}

\* testPassword, and what keytar.getPassword can answer.
TestPassword == "test"
Retrieved == {"test", "Test", "null", "throws"}

KIdle == [pc |-> "idle", res |-> "none", probed |-> FALSE]

\* keychainAvailable, keytarLoadAttempted and keytarModule of the instance,
\* with the import of keytar succeeding or not.  The other fields are
\* history: the probes begun, the checks made, the first result, and what
\* the steps of the last probe answered.
KcFresh(keytarLoads) ==
  [keytar |-> keytarLoads, keychainAvailable |-> "null",
   keytarLoadAttempted |-> FALSE, keytarModule |-> FALSE,
   nProbe |-> 0, nChecks |-> 0, first |-> "none",
   setOk |-> "none", retrieved |-> "none", deleted |-> "none",
   call |-> [k \in KProcs |-> KIdle]]

\* The check ends with `success`: the result is cached and returned.
KFinish(c, k, success) ==
  [c EXCEPT !.keychainAvailable = IF success THEN "true" ELSE "false",
            !.first = IF @ = "none"
                        THEN (IF success THEN "true" ELSE "false") ELSE @,
            !.call[k] = [@ EXCEPT !.pc = "done",
                                  !.res = IF success THEN "true" ELSE "false"]]

\* Variant of probeSuccess that ignores the answer of deletePassword.
probeSuccess_IgnoreDelete(deleted, retrieved) == retrieved = TestPassword

\* `const success = deleted && retrieved === testPassword`.
probeSuccess(deleted, retrieved) ==
  deleted = "true" /\ retrieved = TestPassword

\* Variant of KCheck that never reads the cached result.
KCheck_NoCache(k) ==
  /\ kc.call[k].pc = "idle"
  /\ \A j \in KProcs : kc.call[j].pc \in {"idle", "done"}
  /\ kc.nChecks < MaxChecks
  /\ kc' = [kc EXCEPT !.nChecks = @ + 1, !.call[k].pc = "import",
                      !.call[k].probed = FALSE]
  /\ UNCHANGED <<AuthVarsButKc, backend, hy>>

\* checkKeychainAvailability() up to its first await: the cached result, or
\* getKeytar().
KCheck(k) ==
  /\ kc.call[k].pc = "idle"
  /\ \A j \in KProcs : kc.call[j].pc \in {"idle", "done"}
  /\ kc.nChecks < MaxChecks
  /\ kc' = IF kc.keychainAvailable # "null"
             THEN [kc EXCEPT !.nChecks = @ + 1,
                             !.call[k] = [pc |-> "done",
                                          res |-> kc.keychainAvailable,
                                          probed |-> FALSE]]
             ELSE [kc EXCEPT !.nChecks = @ + 1, !.call[k].pc = "import",
                             !.call[k].probed = FALSE]
  /\ UNCHANGED <<AuthVarsButKc, backend, hy>>

\* getKeytar() returns: without the module the check answers false; with it
\* the probe begins with keytar.setPassword.
KImport(k) ==
  /\ kc.call[k].pc = "import"
  /\ LET c == [kc EXCEPT !.keytarLoadAttempted = TRUE,
                         !.keytarModule = IF kc.keytarLoadAttempted
                                            THEN @ ELSE kc.keytar]
     IN kc' = IF ~c.keytarModule
                THEN KFinish(c, k, FALSE)
                ELSE [c EXCEPT !.nProbe = @ + 1, !.call[k].pc = "set",
                               !.call[k].probed = TRUE,
                               !.setOk = "none", !.retrieved = "none",
                               !.deleted = "none"]
  /\ UNCHANGED <<AuthVarsButKc, backend, hy>>

\* keytar.setPassword resolves or throws.
KSet(k, ok) ==
  /\ kc.call[k].pc = "set"
  /\ kc' = IF ok
             THEN [kc EXCEPT !.setOk = "ok", !.call[k].pc = "get"]
             ELSE KFinish([kc EXCEPT !.setOk = "throws"], k, FALSE)
  /\ UNCHANGED <<AuthVarsButKc, backend, hy>>

\* keytar.getPassword resolves with r or throws.
KGet(k, r) ==
  /\ kc.call[k].pc = "get"
  /\ kc' = IF r = "throws"
             THEN KFinish([kc EXCEPT !.retrieved = r], k, FALSE)
             ELSE [kc EXCEPT !.retrieved = r, !.call[k].pc = "del"]
  /\ UNCHANGED <<AuthVarsButKc, backend, hy>>

\* keytar.deletePassword resolves with d or throws.
KDelete(k, d) ==
  /\ kc.call[k].pc = "del"
  /\ kc' = KFinish([kc EXCEPT !.deleted = d], k,
                   d # "throws" /\ probeSuccess(d, kc.retrieved))
  /\ UNCHANGED <<AuthVarsButKc, backend, hy>>

\* The caller takes the answer.
KReturn(k) ==
  /\ kc.call[k].pc = "done"
  /\ kc' = [kc EXCEPT !.call[k].pc = "idle"]
  /\ UNCHANGED <<AuthVarsButKc, backend, hy>>

\* ------------------------------------------------------ HybridTokenStorage
\* The callers of the selector's operations (getCredentials, setCredentials,
\* deleteCredentials, ...), each of which awaits getStorage() first.
HProcs == {"h1", "h2", "h3"}

HIdle == [pc |-> "idle", got |-> "none", res |-> "none"]

\* A HybridTokenStorage just constructed: storage, storageType (both the
\* variable backend) and storageInitPromise are null.  promise is the state
\* of storageInitPromise, initPc the await initializeStorage() is at,
\* forceFile the GEMINI_CLI_WORKSPACE_FORCE_FILE_STORAGE override.  History:
\* nInit, nKeychain and nProbe count the runs of initializeStorage, the
\* KeychainTokenStorage objects constructed and the runs of the availability
\* self-test; probeRes is how loading and probing the keychain ended;
\* nCalls counts the operations started.
HyFresh(force) ==
  [promise |-> "none", initPc |-> "idle", forceFile |-> force,
   nInit |-> 0, nKeychain |-> 0, nProbe |-> 0, probeRes |-> "none",
   nCalls |-> 0, call |-> [q \in HProcs |-> HIdle]]

\* The selector once bound to backend b, with no caller in it.
HyBound(b) ==
  [HyFresh(FALSE) EXCEPT !.promise = "resolved", !.initPc = "done",
                         !.nInit = 1, !.nKeychain = 1, !.nProbe = 1,
                         !.probeRes = IF b = "keychain" THEN "ok"
                                                        ELSE "negative"]

\* ------------------------------------------- TokenStorage backends, data
\* Server names, each with the characters it is made of.
ServerNames == {"", "main-account", "a/b", "a_b"}

Chars(name) ==
  CASE name = "" -> <<>>
    [] name = "main-account" ->
         <<"m", "a", "i", "n", "-", "a", "c", "c", "o", "u", "n", "t">>
    [] name = "a/b" -> <<"a", "/", "b">>
    [] name = "a_b" -> <<"a", "_", "b">>

\* The characters sanitizeServerName keeps: [a-zA-Z0-9-_.], of which these
\* occur in ServerNames.
SafeChars == {"a", "b", "c", "i", "m", "n", "o", "t", "u", "-", "_", "."}

\* BaseTokenStorage.sanitizeServerName on the characters of a name.
sanitizeServerName(cs) ==
  [i \in DOMAIN cs |-> IF cs[i] \in SafeChars THEN cs[i] ELSE "_"]

\* The key an entry is kept under: the keytar account is the sanitized name,
\* the key of the file's map the name itself.
StorageKey(b, name) ==
  IF b = "keychain" THEN sanitizeServerName(Chars(name)) ELSE Chars(name)

StorageKeys ==
  {StorageKey(b, n) : b \in {"keychain", "encrypted_file"}, n \in ServerNames}

\* JSON.stringify of a number: NaN is written as null.  An absent field is
\* not written.
jsonNumber(n) == IF n = NaN THEN Null ELSE n

\* JSON.stringify of an OAuthCredentials record followed by JSON.parse of the
\* text: strings and finite numbers come back as they were, absent fields
\* stay absent, NaN comes back as null.
jsonRoundTrip(rec) ==
  [rec EXCEPT !.token.expiresAt = jsonNumber(@),
              !.updatedAt = jsonNumber(@)]

NoEntries == [k \in StorageKeys |-> NoRec]

\* A backend with its entries and no caller.  file is the state of the
\* encrypted token file: "ok", or "corrupt" when it does not decrypt, which
\* loadTokens reads as an empty map.  History: input is the record given to
\* the last setCredentials, setAt the clock when it ran, out what
\* getCredentials returned, nSets the setCredentials calls so far.
TsFresh(f, e) ==
  [entries |-> e, file |-> f, pc |-> "idle", input |-> NoRec, setAt |-> 0,
   out |-> NoRec, nSets |-> 0, res |-> "none",
   op |-> "none", arg |-> "", before |-> e, beforeFile |-> f,
   failed |-> {}, attempted |-> {}, prevOp |-> "none", prevRes |-> "none",
   nOps |-> 0, ext |-> NoRec]

\* ---------------------------------------------------------------- actions
Init ==
  /\ client = 0
  /\ clients = [c \in ClientIds |-> EmptyCreds]
  /\ store \in InitialStores
  /\ backend \in {"keychain", "encrypted_file"}
  /\ now = 0
  /\ nCalls = 0
  /\ pr = [p \in Procs |-> Idle]
  /\ lis = [c \in ClientIds |-> "none"]
  /\ tev = TevIdle
  /\ nTev = 0
  /\ published = {}
  /\ sinceClear = FALSE
  /\ hy = HyBound(backend)
  /\ ts = TsFresh("ok", NoEntries)
  /\ lg = LgFresh(<<>>, "localhost", TRUE)
  /\ kc = KcFresh(TRUE)
  /\ cf = CfIdle

\* The client objects still referenced: this.client (c) and the client of
\* every operation in flight.  The others are garbage: their credentials
\* can no longer be read, and they are kept as EmptyCreds.
Live(cl, c, prs) ==
  [i \in ClientIds |->
     IF i = c \/ (\E p \in Procs : prs[p].pc # "idle" /\ prs[p].cli = i)
       THEN cl[i] ELSE EmptyCreds]

\* The caller's record and this.client after a synchronous part, with cl
\* the clients' credentials it leaves.
Apply(p, out, cl) ==
  /\ pr' = [pr EXCEPT ![p] = out.me]
  /\ client' = out.client
  /\ clients' = Live(cl, out.client, pr')

\* The record of a caller entering operation op.
Started(op) ==
  [Idle EXCEPT !.top = op, !.cli = nCalls + 1, !.startClient = client,
               !.startCreds = IF client # 0 THEN clients[client]
                                            ELSE EmptyCreds,
               !.startStore = store]

\* A caller invokes getAuthenticatedClient().
StartGac(p) ==
  /\ pr[p].pc = "idle"
  /\ nCalls < MaxCalls
  /\ nCalls' = nCalls + 1
  /\ Apply(p, getAuthenticatedClient(
                [Started("gac") EXCEPT !.mark = sinceClear],
                client, clients),
           clients)
  /\ sinceClear' = FALSE
  /\ UNCHANGED <<store, backend, now, lis, tev, nTev, published>>
  /\ UNCHANGED <<hy, ts, lg, kc, cf>>

\* A caller invokes refreshToken(): with no client it first awaits
\* getAuthenticatedClient().
StartRefresh(p) ==
  /\ pr[p].pc = "idle"
  /\ nCalls < MaxCalls
  /\ nCalls' = nCalls + 1
  /\ LET me0 == Started("rt")
     IN IF client = 0
          THEN /\ Apply(p, getAuthenticatedClient(
                             [me0 EXCEPT !.mark = sinceClear], client, clients),
                        clients)
               /\ sinceClear' = FALSE
          ELSE /\ Apply(p, BeginRefresh(me0, client, clients, "none"), clients)
               /\ UNCHANGED sinceClear
  /\ UNCHANGED <<store, backend, now, lis, tev, nTev, published>>
  /\ UNCHANGED <<hy, ts, lg, kc, cf>>

\* A caller invokes clearAuth(): this.client = null, then it awaits
\* clearCredentials().
StartClear(p) ==
  /\ pr[p].pc = "idle"
  /\ nCalls < MaxCalls
  /\ nCalls' = nCalls + 1
  /\ Apply(p, [me |-> [Started("ca") EXCEPT !.pc = "c_del"], client |-> 0],
           clients)
  /\ UNCHANGED <<store, backend, now, lis, tev, nTev, published, sinceClear>>
  /\ UNCHANGED <<hy, ts, lg, kc, cf>>

\* loadCachedCredentials after `await loadCredentials()`.
GLoad(p) ==
  /\ pr[p].pc = "g_load"
  /\ LET credentials == googleCreds(store)
         me == [pr[p] EXCEPT !.loaded = credentials]
         cl2 == [clients EXCEPT ![me.cli] = credentials]
     IN IF credentials = NoRec
          THEN Apply(p, authWithWeb(me, client), clients)
          ELSE IF missingScopes(credentials) # {}
            THEN Apply(p, [me |-> [me EXCEPT !.pc = "g_scope_del"],
                           client |-> client], clients)
            ELSE Apply(p, IF isTokenExpiringSoon(credentials, now)
                            THEN tryProactiveRefresh(me, me.cli, cl2, "stor")
                            ELSE GacReturn(me, me.cli, cl2, me.cli),
                       cl2)
  /\ UNCHANGED <<store, backend, now, nCalls, lis, tev, nTev, published,
                 sinceClear>>
  /\ UNCHANGED <<hy, ts, lg, kc, cf>>

\* deleteCredentials(MAIN_ACCOUNT_KEY) of the bound backend.  Keychain:
\* deletePassword, then the throw when nothing was deleted.  File: loadTokens
\* and the throw when the entry is absent; the unlink is a second step.
DeleteRead(p) ==
  /\ pr[p].pc \in {"c_del", "tp_del", "g_scope_del"}
  /\ LET me == pr[p]
     IN IF store = NoRec
          THEN /\ Apply(p, DeleteThrew(me, client), clients)
               /\ UNCHANGED <<store, sinceClear>>
          ELSE IF backend = "keychain"
            THEN /\ store' = NoRec
                 /\ Apply(p, AfterDelete(me, client, clients), clients)
                 /\ sinceClear' = IF me.pc = "c_del" THEN TRUE ELSE sinceClear
            ELSE /\ Apply(p, [me |-> [me EXCEPT !.pc =
                                        CASE me.pc = "c_del" -> "c_unlink"
                                          [] me.pc = "tp_del" -> "tp_unlink"
                                          [] me.pc = "g_scope_del" ->
                                               "g_scope_unlink"],
                              client |-> client], clients)
                 /\ UNCHANGED <<store, sinceClear>>
  /\ UNCHANGED <<backend, now, nCalls, lis, tev, nTev, published>>
  /\ UNCHANGED <<hy, ts, lg, kc, cf>>

\* FileTokenStorage.deleteCredentials: the last entry is gone, so the file
\* is unlinked (ENOENT ignored).
DeleteUnlink(p) ==
  /\ pr[p].pc \in {"c_unlink", "tp_unlink", "g_scope_unlink"}
  /\ store' = NoRec
  /\ Apply(p, AfterDelete(pr[p], client, clients), clients)
  /\ sinceClear' = IF pr[p].pc = "c_unlink" THEN TRUE ELSE sinceClear
  /\ UNCHANGED <<backend, now, nCalls, lis, tev, nTev, published>>
  /\ UNCHANGED <<hy, ts, lg, kc, cf>>

\* authWithWeb after the port is known: the listener listens, the browser
\* is opened and the login timer is armed.
PortReady(p) ==
  /\ pr[p].pc = "g_port"
  /\ lis' = [lis EXCEPT ![pr[p].cli] = "open"]
  /\ pr' = [pr EXCEPT ![p].pc = "g_wait",
                      ![p].deadline = now + AUTH_TIMEOUT_MS,
                      ![p].waitClient = client,
                      ![p].waitCreds = clients[pr[p].cli],
                      ![p].waitStore = store]
  /\ UNCHANGED <<client, clients, store, backend, now, nCalls, tev, nTev,
                 published, sinceClear>>
  /\ UNCHANGED <<hy, ts, lg, kc, cf>>

\* Variant of Callback whose handler leaves the server open when the token
\* fields are missing.
Callback_OpenOnNoTokens(c, req) ==
  /\ lis[c] = "open"
  /\ LET out == HandlerOutcome(c, req)
         cl2 == IF out = "resolved"
                  THEN [clients EXCEPT ![c] = HandlerTokens(req)]
                  ELSE clients
     IN /\ pr' = [p \in Procs |->
                    IF pr[p].pc = "g_wait" /\ pr[p].cli = c
                      THEN IF out = "resolved"
                             THEN [pr[p] EXCEPT !.pc = "g_save",
                                                !.merged = cl2[c],
                                                !.cbSet = TRUE,
                                                !.req = req]
                             ELSE GacReject([pr[p] EXCEPT !.req = req],
                                            client, out).me
                      ELSE pr[p]]
        /\ clients' = Live(cl2, client, pr')
        /\ lis' = [lis EXCEPT ![c] = IF out = "no_tokens" THEN "open"
                                                          ELSE "closed"]
  /\ UNCHANGED <<client, store, backend, now, nCalls, tev, nTev, published,
                 sinceClear>>
  /\ UNCHANGED <<hy, ts, lg, kc, cf>>

\* Variant of Callback whose handler, finding no call waiting on its login
\* promise, saves the tokens and installs the client itself.
Callback_LateAdopts(c, req) ==
  /\ lis[c] = "open"
  /\ LET out == HandlerOutcome(c, req)
         cl2 == IF out = "resolved"
                  THEN [clients EXCEPT ![c] = HandlerTokens(req)]
                  ELSE clients
         late == out = "resolved"
                 /\ ~\E p \in Procs : pr[p].pc = "g_wait" /\ pr[p].cli = c
     IN /\ pr' = [p \in Procs |->
                    IF pr[p].pc = "g_wait" /\ pr[p].cli = c
                      THEN IF out = "resolved"
                             THEN [pr[p] EXCEPT !.pc = "g_save",
                                                !.merged = cl2[c],
                                                !.cbSet = TRUE,
                                                !.req = req]
                             ELSE GacReject([pr[p] EXCEPT !.req = req],
                                            client, out).me
                      ELSE pr[p]]
        /\ client' = IF late THEN c ELSE client
        /\ store' = IF late THEN mcpCredentials(cl2[c], now) ELSE store
        /\ clients' = Live(cl2, client', pr')
  /\ lis' = [lis EXCEPT ![c] = "closed"]
  /\ UNCHANGED <<backend, now, nCalls, tev, nTev, published, sinceClear>>
  /\ UNCHANGED <<hy, ts, lg, kc, cf>>

\* A request reaches the open listener of attempt c: the handler settles the
\* login promise and closes the server; a getAuthenticatedClient() waiting
\* on that promise goes on to saveCredentials() or rejects.
Callback(c, req) ==
  /\ lis[c] = "open"
  /\ LET out == HandlerOutcome(c, req)
         cl2 == IF out = "resolved"
                  THEN [clients EXCEPT ![c] = HandlerTokens(req)]
                  ELSE clients
     IN /\ pr' = [p \in Procs |->
                    IF pr[p].pc = "g_wait" /\ pr[p].cli = c
                      THEN IF out = "resolved"
                             THEN [pr[p] EXCEPT !.pc = "g_save",
                                                !.merged = cl2[c],
                                                !.cbSet = TRUE,
                                                !.req = req]
                             ELSE GacReject([pr[p] EXCEPT !.req = req],
                                            client, out).me
                      ELSE pr[p]]
        /\ clients' = Live(cl2, client, pr')
  /\ lis' = [lis EXCEPT ![c] = "closed"]
  /\ UNCHANGED <<client, store, backend, now, nCalls, tev, nTev, published,
                 sinceClear>>
  /\ UNCHANGED <<hy, ts, lg, kc, cf>>

\* Variant of LoginTimeout whose timer never fires.
LoginTimeout_Never(p) ==
  /\ pr[p].pc = "g_wait"
  /\ FALSE
  /\ UNCHANGED vars

\* Variant of LoginTimeout that closes the listener.
LoginTimeout_ClosesListener(p) ==
  /\ pr[p].pc = "g_wait"
  /\ now >= pr[p].deadline
  /\ Apply(p, GacReject(pr[p], client, "timeout"), clients)
  /\ lis' = [lis EXCEPT ![pr[p].cli] = "closed"]
  /\ UNCHANGED <<store, backend, now, nCalls, tev, nTev, published,
                 sinceClear>>
  /\ UNCHANGED <<hy, ts, lg, kc, cf>>

\* The AUTH_TIMEOUT_MS timer fires before the login promise settled.
LoginTimeout(p) ==
  /\ pr[p].pc = "g_wait"
  /\ now >= pr[p].deadline
  /\ Apply(p, GacReject(pr[p], client, "timeout"), clients)
  /\ UNCHANGED <<store, backend, now, nCalls, lis, tev, nTev, published,
                 sinceClear>>
  /\ UNCHANGED <<hy, ts, lg, kc, cf>>

\* getAuthenticatedClient after `await saveCredentials(...)` of the login:
\* this.client = oAuth2Client.
GSave(p) ==
  /\ pr[p].pc = "g_save"
  /\ LET me == pr[p]
         rec == mcpCredentials(me.merged, now)
     IN IF validateCredentials(rec)
          THEN /\ store' = rec
               /\ Apply(p, GacReturn(me, me.cli, clients, me.cli), clients)
          ELSE /\ Apply(p, GacReject(me, client, "validation"), clients)
               /\ UNCHANGED store
  /\ UNCHANGED <<backend, now, nCalls, lis, tev, nTev, published, sinceClear>>
  /\ UNCHANGED <<hy, ts, lg, kc, cf>>

\* POST /refreshToken fails: the fetch rejects or answers non-2xx.
RefreshFailed(p) ==
  /\ pr[p].pc = "r_fetch"
  /\ Apply(p, RefreshThrow([pr[p] EXCEPT !.tpFailed = (@ \/ pr[p].site # "none")],
                            client, pr[p].site, "refresh_failed"),
           clients)
  /\ UNCHANGED <<store, backend, now, nCalls, lis, tev, nTev, published,
                 sinceClear>>
  /\ UNCHANGED <<hy, ts, lg, kc, cf>>

\* POST /refreshToken answers 2xx with body newTokens:
\* this.client.setCredentials(mergedCredentials), a TypeError when
\* this.client is null by now.
RefreshOk(p, newTokens) ==
  /\ pr[p].pc = "r_fetch"
  /\ LET me == [pr[p] EXCEPT !.respRT = newTokens.refresh_token]
         m == mergedCredentials(newTokens, me.curRT)
     IN IF client = 0
          THEN Apply(p, RefreshThrow([me EXCEPT !.tpFailed = (@ \/ me.site # "none")],
                                     client, me.site, "type_error"),
                     clients)
          ELSE Apply(p, [me |-> [me EXCEPT !.pc = "r_save", !.merged = m],
                         client |-> client],
                     [clients EXCEPT ![client] = m])
  /\ UNCHANGED <<store, backend, now, nCalls, lis, tev, nTev, published,
                 sinceClear>>
  /\ UNCHANGED <<hy, ts, lg, kc, cf>>

\* refreshToken after `await saveCredentials(mergedCredentials)`.
RSave(p) ==
  /\ pr[p].pc = "r_save"
  /\ LET me == [pr[p] EXCEPT !.rtOk = TRUE]
     IN /\ store' = mcpCredentials(me.merged, now)
        /\ Apply(p, IF me.site = "none"
                      THEN [me |-> [me EXCEPT !.pc = "done", !.res = "ok"],
                            client |-> client]
                      ELSE AfterProactive(me, client, clients),
                 clients)
  /\ UNCHANGED <<backend, now, nCalls, lis, tev, nTev, published, sinceClear>>
  /\ UNCHANGED <<hy, ts, lg, kc, cf>>

\* The in-memory client, already handed to a caller, refreshes itself and
\* emits "tokens": the listener starts and awaits loadCredentials().
TokenEvent(tokens) ==
  /\ client \in published
  /\ clients[client].refresh_token # ""
  /\ tev.st = "idle"
  /\ nTev < MaxTokenEvents
  /\ nTev' = nTev + 1
  /\ clients' = [clients EXCEPT ![client] =
                   [tokens EXCEPT !.refresh_token =
                      clients[client].refresh_token]]
  /\ tev' = [st |-> "load", tokens |-> tokens, ev |-> tokens,
             before |-> store, err |-> "none"]
  /\ UNCHANGED <<client, store, backend, now, nCalls, pr, lis, published,
                 sinceClear>>
  /\ UNCHANGED <<hy, ts, lg, kc, cf>>

\* "tokens" listener after `await loadCredentials()`; the storage either
\* answers or throws, and a throw is logged and swallowed.
TevLoad(ok) ==
  /\ tev.st = "load"
  /\ tev' = IF ok
              THEN [tev EXCEPT !.st = "save",
                      !.tokens = mergedTokens(tev.tokens, googleCreds(store))]
              ELSE [tev EXCEPT !.st = "idle", !.tokens = EmptyCreds,
                      !.err = "load_failed"]
  /\ UNCHANGED <<client, clients, store, backend, now, nCalls, pr, lis, nTev,
                 published, sinceClear>>
  /\ UNCHANGED <<hy, ts, lg, kc, cf>>

\* "tokens" listener after `await saveCredentials(merged)`; a throw (of the
\* validation or of the storage) is logged and swallowed.
TevSave(ok) ==
  /\ tev.st = "save"
  /\ LET rec == mcpCredentials(tev.tokens, now)
         saved == ok /\ validateCredentials(rec)
     IN /\ store' = IF saved THEN rec ELSE store
        /\ tev' = [tev EXCEPT !.st = "idle", !.tokens = EmptyCreds,
                     !.err = IF saved THEN "none" ELSE "save_failed"]
  /\ UNCHANGED <<client, clients, backend, now, nCalls, pr, lis, nTev,
                 published, sinceClear>>
  /\ UNCHANGED <<hy, ts, lg, kc, cf>>

\* The caller takes the outcome of its operation.
Return(p) ==
  /\ pr[p].pc = "done"
  /\ published' = (IF pr[p].top = "gac" /\ pr[p].res = "ok"
                     THEN published \cup {pr[p].ret} ELSE published)
                  \cap {client}
  /\ Apply(p, [me |-> Idle, client |-> client], clients)
  /\ UNCHANGED <<store, backend, now, nCalls, lis, tev, nTev, sinceClear>>
  /\ UNCHANGED <<hy, ts, lg, kc, cf>>

\* Time passes.
Tick ==
  /\ now < MaxTicks * AUTH_TIMEOUT_MS
  /\ now' = now + AUTH_TIMEOUT_MS
  /\ UNCHANGED <<client, clients, store, backend, nCalls, pr, lis, tev,
                 nTev, published, sinceClear>>
  /\ UNCHANGED <<hy, ts, lg, kc, cf>>

\* Steps of the operations in flight, the environment drawing its requests
\* for the listener of attempt c from R[c] and its refresh bodies from B.
Steps(R, B) ==
  \/ \E p \in Procs : GLoad(p)
  \/ \E p \in Procs : DeleteRead(p)
  \/ \E p \in Procs : DeleteUnlink(p)
  \/ \E p \in Procs : PortReady(p)
  \/ \E c \in ClientIds : \E req \in R[c] : Callback(c, req)
  \/ \E p \in Procs : GSave(p)
  \/ \E p \in Procs : RefreshFailed(p)
  \/ \E p \in Procs : \E b \in B : RefreshOk(p, b)
  \/ \E p \in Procs : RSave(p)
  \/ \E p \in Procs : Return(p)

\* Steps of the "tokens" listener.
TevSteps ==
  \/ \E ok \in BOOLEAN : TevLoad(ok)
  \/ \E ok \in BOOLEAN : TevSave(ok)

\* The clock, and the login timers it fires.
Timed ==
  \/ Tick
  \/ \E p \in Procs : LoginTimeout(p)

\* A caller starts an operation.  The caller slots are interchangeable: p2
\* is taken only while p1 is busy.
Arrival ==
  \E p \in Procs :
    /\ p = "p1" \/ pr["p1"].pc # "idle"
    /\ \/ StartGac(p)
       \/ StartRefresh(p)
       \/ StartClear(p)

\* Nothing of the AuthManager is in flight.
Quiet == (\A p \in Procs : pr[p].pc = "idle") /\ tev.st = "idle"

\* One operation at a time: a caller starts, or the client in use emits
\* "tokens", only when nothing is in flight.
Next ==
  \/ Quiet /\ Arrival
  \/ Quiet /\ \E t \in EventTokens : TokenEvent(t)
  \/ Steps([c \in ClientIds |-> Requests(c)], RefreshBodies)
  \/ TevSteps
  \/ Timed

Spec == Init /\ [][Next]_vars

\* Concurrent callers: operations overlap at every await, within one instant
\* of the clock, on the file backend, with no "tokens" event.  The
\* environment is reduced to three requests and two refresh bodies.
ConcRequests(c) ==
  {Request("/oauth2callback", c, "", "tok1", StrLater, "r1", FullScope, "Bearer"),
   Request("/oauth2callback", 0, "", "tok1", StrLater, "r1", FullScope, "Bearer"),
   Request("/oauth2callback", c, "access_denied", "", <<>>, "", <<>>, "")}

ConcBodies ==
  {Creds("tok2", "", FullScope, "Bearer", Undefined),
   Creds("tok2", "r2", FullScope, "Bearer", ExpSoon)}

NextConc ==
  \/ Arrival
  \/ Steps([c \in ClientIds |-> ConcRequests(c)], ConcBodies)

\* The process starts with nothing stored, or with a usable entry that is
\* about to expire.
InitConc ==
  /\ Init
  /\ backend = "encrypted_file"
  /\ store \in {NoRec,
                mcpCredentials(Creds("tok0", "r0", FullScope, "Bearer", ExpSoon),
                               0)}

SpecConc == InitConc /\ [][NextConc]_vars

\* Time passes while a login timer is pending.
TimerTick ==
  /\ \E p \in Procs : pr[p].pc = "g_wait" /\ now < pr[p].deadline
  /\ now' = now + AUTH_TIMEOUT_MS
  /\ UNCHANGED <<client, clients, store, backend, nCalls, pr, lis, tev,
                 nTev, published, sinceClear>>
  /\ UNCHANGED <<hy, ts, lg, kc, cf>>

\* One operation at a time, with the scheduling the runtime gives: every
\* storage call and every refresh request returns, and a pending login timer
\* fires.  Nothing makes a callback arrive or a caller start.
NextLive == Next \/ TimerTick

Fairness ==
  /\ WF_vars(TimerTick)
  /\ \A p \in Procs :
       /\ WF_vars(GLoad(p))
       /\ WF_vars(DeleteRead(p))
       /\ WF_vars(DeleteUnlink(p))
       /\ WF_vars(PortReady(p))
       /\ WF_vars(LoginTimeout(p))
       /\ WF_vars(GSave(p))
       /\ WF_vars(RefreshFailed(p) \/ \E b \in RefreshBodies : RefreshOk(p, b))
       /\ WF_vars(RSave(p))

SpecLive == Init /\ [][NextLive]_vars /\ Fairness

\* Entries and bodies with fields missing: the stored entry may hold a
\* refresh token and no access token (validateCredentials accepts it, and
\* loadCredentials reads whatever is stored), and a 2xx body of the refresh
\* route may carry no access_token (response.json() is used as it is).
PersistedRecords ==
  InitialStores
    \cup {mcpCredentials(Creds("", "r0", FullScope, "Bearer", ExpLater), 0)}

AnyRefreshBodies ==
  RefreshBodies \cup {Creds("", "", FullScope, "Bearer", ExpLater)}

InitFields ==
  /\ client = 0
  /\ clients = [c \in ClientIds |-> EmptyCreds]
  /\ store \in PersistedRecords
  /\ backend \in {"keychain", "encrypted_file"}
  /\ now = 0
  /\ nCalls = 0
  /\ pr = [p \in Procs |-> Idle]
  /\ lis = [c \in ClientIds |-> "none"]
  /\ tev = TevIdle
  /\ nTev = 0
  /\ published = {}
  /\ sinceClear = FALSE
  /\ hy = HyBound(backend)
  /\ ts = TsFresh("ok", NoEntries)
  /\ lg = LgFresh(<<>>, "localhost", TRUE)
  /\ kc = KcFresh(TRUE)
  /\ cf = CfIdle

NextFields ==
  \/ Quiet /\ Arrival
  \/ Quiet /\ \E t \in EventTokens : TokenEvent(t)
  \/ Steps([c \in ClientIds |-> Requests(c)], AnyRefreshBodies)
  \/ TevSteps
  \/ Timed

SpecFields == InitFields /\ [][NextFields]_vars

\* The expiry check on its own: at some time of the clock the process holds,
\* in memory or in storage only, a token with a refresh token whose
\* expiry_date is absent, NaN, long past or around the end of the buffer, and
\* one caller invokes getAuthenticatedClient().
ExpiryNows == {0, 1000, 60 * 1000, TOKEN_EXPIRY_BUFFER_MS, 3600 * 1000}

ExpiryDates(t) ==
  {Undefined, 0, NaN, 1}
    \cup {t + TOKEN_EXPIRY_BUFFER_MS + d : d \in {-1000, -1, 0, 1, 1000}}

InitExpiry ==
  /\ now \in ExpiryNows
  /\ \E e \in ExpiryDates(now) :
       LET cr == Creds("tok0", "r0", FullScope, "Bearer", e)
       IN /\ store = mcpCredentials(cr, 0)
          /\ \/ client = 0 /\ clients = [c \in ClientIds |-> EmptyCreds]
             \/ /\ client = 1
                /\ clients = [c \in ClientIds |->
                                IF c = 1 THEN cr ELSE EmptyCreds]
  /\ backend \in {"keychain", "encrypted_file"}
  /\ nCalls = 1
  /\ pr = [p \in Procs |-> Idle]
  /\ lis = [c \in ClientIds |-> "none"]
  /\ tev = TevIdle
  /\ nTev = 0
  /\ published = {}
  /\ sinceClear = FALSE
  /\ hy = HyBound(backend)
  /\ ts = TsFresh("ok", NoEntries)
  /\ lg = LgFresh(<<>>, "localhost", TRUE)
  /\ kc = KcFresh(TRUE)
  /\ cf = CfIdle

NextExpiry ==
  \/ Quiet /\ StartGac("p1")
  \/ GLoad("p1")

SpecExpiry == InitExpiry /\ [][NextExpiry]_vars

\* ------------------------------------------- HybridTokenStorage, actions
\* What the selector's steps leave alone.
AuthVars ==
  <<client, clients, store, now, nCalls, pr, lis, tev, nTev, published,
    sinceClear, ts, lg, kc, cf>>

\* initializeStorage() up to its first await: the import of the keychain
\* module, or with the override FileTokenStorage.create().
initializeStorage(h) ==
  [h EXCEPT !.promise = "pending", !.nInit = @ + 1,
            !.initPc = IF h.forceFile THEN "file_create" ELSE "import"]

\* HCall without the shared storageInitPromise: every caller that finds no
\* backend bound starts initializeStorage.
HCall_NoSharedPromise(q) ==
  /\ hy.call[q].pc = "idle"
  /\ hy.nCalls < MaxHCalls
  /\ LET h == [hy EXCEPT !.nCalls = @ + 1]
     IN hy' = IF backend # "none"
                THEN [h EXCEPT !.call[q] = [HIdle EXCEPT !.pc = "op",
                                                         !.got = backend]]
                ELSE [initializeStorage(h) EXCEPT
                        !.call[q] = [HIdle EXCEPT !.pc = "await_init"]]
  /\ UNCHANGED <<AuthVars, backend>>

\* HCall forgetting a rejected storageInitPromise: a caller that finds it
\* rejected starts initializeStorage again.
HCall_RetryAfterFailure(q) ==
  /\ hy.call[q].pc = "idle"
  /\ hy.nCalls < MaxHCalls
  /\ LET h == [hy EXCEPT !.nCalls = @ + 1]
     IN hy' = IF backend # "none"
                THEN [h EXCEPT !.call[q] = [HIdle EXCEPT !.pc = "op",
                                                         !.got = backend]]
                ELSE IF h.promise \in {"none", "rejected"}
                  THEN [initializeStorage(h) EXCEPT
                          !.call[q] = [HIdle EXCEPT !.pc = "await_init"]]
                  ELSE [h EXCEPT !.call[q] = [HIdle EXCEPT !.pc = "await_init"]]
  /\ UNCHANGED <<AuthVars, backend>>

\* A caller starts an operation of the selector: getStorage() returns the
\* bound backend, or the one storageInitPromise, which the first caller
\* creates.
HCall(q) ==
  /\ hy.call[q].pc = "idle"
  /\ hy.nCalls < MaxHCalls
  /\ LET h == [hy EXCEPT !.nCalls = @ + 1]
     IN hy' = IF backend # "none"
                THEN [h EXCEPT !.call[q] = [HIdle EXCEPT !.pc = "op",
                                                         !.got = backend]]
                ELSE IF h.promise = "none"
                  THEN [initializeStorage(h) EXCEPT
                          !.call[q] = [HIdle EXCEPT !.pc = "await_init"]]
                  ELSE [h EXCEPT !.call[q] = [HIdle EXCEPT !.pc = "await_init"]]
  /\ UNCHANGED <<AuthVars, backend>>

\* initializeStorage() after the import of the keychain module: a throw is
\* caught; else the KeychainTokenStorage is constructed and its self-test
\* starts.
HImport(ok) ==
  /\ hy.initPc = "import"
  /\ hy' = IF ok
             THEN [hy EXCEPT !.initPc = "probe", !.nKeychain = @ + 1,
                             !.nProbe = @ + 1]
             ELSE [hy EXCEPT !.initPc = "file_create",
                             !.probeRes = "import_throws"]
  /\ UNCHANGED <<AuthVars, backend>>

\* HProbe binding the Keychain backend whatever the self-test answered.
HProbe_AlwaysKeychain(r) ==
  /\ hy.initPc = "probe"
  /\ backend' = "keychain"
  /\ hy' = [hy EXCEPT !.initPc = "done", !.probeRes = r,
                      !.promise = "resolved"]
  /\ UNCHANGED AuthVars

\* initializeStorage() after `await keychainStorage.isAvailable()`; a throw
\* inside the self-test is caught there and answers false.
HProbe(r) ==
  /\ hy.initPc = "probe"
  /\ IF r = "ok"
       THEN /\ backend' = "keychain"
            /\ hy' = [hy EXCEPT !.initPc = "done", !.probeRes = r,
                                !.promise = "resolved"]
       ELSE /\ backend' = backend
            /\ hy' = [hy EXCEPT !.initPc = "file_create", !.probeRes = r]
  /\ UNCHANGED AuthVars

\* initializeStorage() after `await FileTokenStorage.create(...)`: the File
\* backend is bound, or loadMasterKey threw (a master key file that cannot be
\* read or written), nothing is bound and storageInitPromise stays rejected.
HFileCreate(ok) ==
  /\ hy.initPc = "file_create"
  /\ IF ok
       THEN /\ backend' = "encrypted_file"
            /\ hy' = [hy EXCEPT !.initPc = "done", !.promise = "resolved"]
       ELSE /\ backend' = backend
            /\ hy' = [hy EXCEPT !.initPc = "done", !.promise = "rejected"]
  /\ UNCHANGED AuthVars

\* A caller's `await this.storageInitPromise` settles: with the backend, or
\* with the error of initializeStorage, which ends the caller's operation.
HResume(q) ==
  /\ hy.call[q].pc = "await_init"
  /\ hy.promise \in {"resolved", "rejected"}
  /\ hy' = IF hy.promise = "resolved"
             THEN [hy EXCEPT !.call[q].pc = "op", !.call[q].got = backend]
             ELSE [hy EXCEPT !.call[q].pc = "done",
                             !.call[q].res = "init_error"]
  /\ UNCHANGED <<AuthVars, backend>>

\* HOp re-adapting: an error of the Keychain backend rebinds the selector to
\* the File backend.
HOp_FallBackOnError(q, r) ==
  /\ hy.call[q].pc = "op"
  /\ hy' = [hy EXCEPT !.call[q].pc = "done", !.call[q].res = r]
  /\ backend' = IF r = "error" /\ hy.call[q].got = "keychain"
                  THEN "encrypted_file" ELSE backend
  /\ UNCHANGED AuthVars

\* The operation on the backend the caller got ends: it returns, or it
\* throws (a keychain that stopped working, an I/O error) and the error is
\* the caller's.
HOp(q, r) ==
  /\ hy.call[q].pc = "op"
  /\ hy' = [hy EXCEPT !.call[q].pc = "done", !.call[q].res = r]
  /\ UNCHANGED <<AuthVars, backend>>

\* The caller takes the outcome.
HReturn(q) ==
  /\ hy.call[q].pc = "done"
  /\ hy' = [hy EXCEPT !.call[q] = HIdle]
  /\ UNCHANGED <<AuthVars, backend>>

\* A process whose first storage operations are about to run.
InitHybrid ==
  /\ client = 0
  /\ clients = [c \in ClientIds |-> EmptyCreds]
  /\ store = NoRec
  /\ backend = "none"
  /\ now = 0
  /\ nCalls = 0
  /\ pr = [p \in Procs |-> Idle]
  /\ lis = [c \in ClientIds |-> "none"]
  /\ tev = TevIdle
  /\ nTev = 0
  /\ published = {}
  /\ sinceClear = FALSE
  /\ \E force \in BOOLEAN : hy = HyFresh(force)
  /\ ts = TsFresh("ok", NoEntries)
  /\ lg = LgFresh(<<>>, "localhost", TRUE)
  /\ kc = KcFresh(TRUE)
  /\ cf = CfIdle

NextHybrid ==
  \/ \E q \in HProcs : HCall(q)
  \/ \E ok \in BOOLEAN : HImport(ok)
  \/ \E r \in {"ok", "negative", "probe_throws"} : HProbe(r)
  \/ \E ok \in BOOLEAN : HFileCreate(ok)
  \/ \E q \in HProcs : HResume(q)
  \/ \E q \in HProcs : \E r \in {"ok", "error"} : HOp(q, r)
  \/ \E q \in HProcs : HReturn(q)

SpecHybrid == InitHybrid /\ [][NextHybrid]_vars

\* ------------------------------------------ TokenStorage backends, actions
\* The records a caller may hand to setCredentials, those that fail
\* validation included.
TsRecords ==
  [serverName : ServerNames,
   token : [accessToken : {"", "tok1"}, refreshToken : {"", "r1"},
            tokenType : {"", "Bearer"}, scope : {FullScope},
            expiresAt : {Undefined, NaN, ExpLater}],
   clientId : {"", "cid"},
   updatedAt : {0, 3 * AUTH_TIMEOUT_MS}]

\* What reading and decrypting the token file throws, by the state of the
\* file: "ok" decrypts to the entries; "absent" is ENOENT; "corrupt" is
\* content without the iv:authTag:ciphertext layout; "empty_part" has the two
\* colons but an empty part; "tag_flipped" has the layout with a changed tag
\* or ciphertext, which decipher.final() rejects; "bad_tag_length" has the
\* layout with a tag that is not a GCM tag length, which setAuthTag rejects;
\* "bad_iv" has the layout with an iv that holds no hex digit, which
\* createDecipheriv rejects; "unreadable" is any other error of readFile.
FileStates ==
  {"ok", "absent", "corrupt", "empty_part", "tag_flipped", "bad_tag_length",
   "bad_iv", "unreadable"}

readError(f) ==
  CASE f = "ok" -> "none"
    [] f = "absent" -> "ENOENT"
    [] f = "corrupt" -> "Invalid encrypted data format"
    [] f = "empty_part" -> "Invalid encrypted data format: missing parts"
    [] f = "tag_flipped" -> "Unsupported state or unable to authenticate data"
    [] f = "bad_tag_length" -> "Invalid authentication tag length"
    [] f = "bad_iv" -> "Invalid initialization vector"
    [] f = "unreadable" -> "EACCES"

\* The errors the catch of loadTokens turns into an empty map: code ENOENT, a
\* message that includes "Invalid encrypted data format" or "Unsupported
\* state or unable to authenticate data".
ToleratedErrors ==
  {"ENOENT", "Invalid encrypted data format",
   "Invalid encrypted data format: missing parts",
   "Unsupported state or unable to authenticate data"}

\* loadTokens rethrows.
loadThrows(t) ==
  readError(t.file) # "none" /\ readError(t.file) \notin ToleratedErrors

\* loadTokens: the map in the token file, empty when the file is absent or
\* its corruption is tolerated.
loadTokens(t) == IF t.file = "ok" THEN t.entries ELSE NoEntries

\* Variant of setCredentials that keeps the updatedAt it is given.
setCredentials_NoStamp(b, t, rec, clock) ==
  IF ~validateCredentials(rec)
    THEN [t EXCEPT !.pc = "threw", !.input = rec, !.nSets = @ + 1,
                   !.res = "validation_error"]
  ELSE IF b = "encrypted_file" /\ loadThrows(t)
    THEN [t EXCEPT !.pc = "threw", !.input = rec, !.nSets = @ + 1,
                   !.res = "io_error"]
    ELSE [t EXCEPT !.entries = [(IF b = "keychain" THEN t.entries
                                                    ELSE loadTokens(t))
                                 EXCEPT ![StorageKey(b, rec.serverName)] = rec],
                   !.file = "ok", !.pc = "set_done", !.input = rec,
                   !.setAt = clock, !.nSets = @ + 1, !.res = "ok"]

\* FileTokenStorage.setCredentials / KeychainTokenStorage.setCredentials on
\* backend b at time clock: validate, stamp updatedAt, serialize, write.
\* The file backend rewrites the whole map it loaded.
setCredentials(b, t, rec, clock) ==
  IF ~validateCredentials(rec)
    THEN [t EXCEPT !.pc = "threw", !.input = rec, !.nSets = @ + 1,
                   !.res = "validation_error"]
  ELSE IF b = "encrypted_file" /\ loadThrows(t)
    THEN [t EXCEPT !.pc = "threw", !.input = rec, !.nSets = @ + 1,
                   !.res = "io_error"]
    ELSE [t EXCEPT !.entries = [(IF b = "keychain" THEN t.entries
                                                    ELSE loadTokens(t))
                                 EXCEPT ![StorageKey(b, rec.serverName)] =
                                   jsonRoundTrip([rec EXCEPT !.updatedAt = clock])],
                   !.file = "ok", !.pc = "set_done", !.input = rec,
                   !.setAt = clock, !.nSets = @ + 1, !.res = "ok"]

\* FileTokenStorage.getCredentials / KeychainTokenStorage.getCredentials:
\* the parsed entry under the name's key, NoRec for null.
getCredentials(b, t, name) ==
  IF b = "keychain" THEN t.entries[StorageKey(b, name)]
                    ELSE loadTokens(t)[StorageKey(b, name)]

\* The entries of backend b after an earlier setCredentials of a record
\* named "a_b".
EarlierEntries(b) ==
  setCredentials(b, TsFresh("ok", NoEntries),
                 [serverName |-> "a_b",
                  token |-> [accessToken |-> "tok0", refreshToken |-> "r0",
                             tokenType |-> "Bearer", scope |-> FullScope,
                             expiresAt |-> ExpSoon],
                  clientId |-> "", updatedAt |-> 0], 0).entries

\* The keys that hold an entry.
Stored(e) == {k \in StorageKeys : e[k] # NoRec}

\* listServers: the keys of the file's map; the keytar accounts.
listServers(b, t) ==
  IF b = "keychain" THEN Stored(t.entries) ELSE Stored(loadTokens(t))

\* FileTokenStorage.deleteCredentials / KeychainTokenStorage.deleteCredentials.
\* The file backend unlinks the file when no entry is left and rewrites it
\* otherwise; keytar.deletePassword answers false when the account is not
\* there.
deleteCredentials(b, t, name) ==
  LET key == StorageKey(b, name)
  IN IF b = "keychain"
       THEN IF t.entries[key] = NoRec
              THEN [t EXCEPT !.res = "not_found"]
              ELSE [t EXCEPT !.res = "ok", !.entries[key] = NoRec]
     ELSE IF loadThrows(t)
       THEN [t EXCEPT !.res = "io_error"]
     ELSE IF loadTokens(t)[key] = NoRec
       THEN [t EXCEPT !.res = "not_found"]
       ELSE LET rest == [loadTokens(t) EXCEPT ![key] = NoRec]
            IN [t EXCEPT !.res = "ok", !.entries = rest,
                         !.file = IF rest = NoEntries THEN "absent" ELSE "ok"]

\* Variant of clearLoop that stops at the first deletion that fails.
RECURSIVE clearLoop_StopAtFirst(_, _, _)
clearLoop_StopAtFirst(t, todo, F) ==
  IF todo = {}
    THEN t
    ELSE LET server == CHOOSE k \in todo : TRUE
             key == sanitizeServerName(server)
             a == [t EXCEPT !.attempted = @ \cup {server}]
         IN IF server \in F \/ a.entries[key] = NoRec
              THEN [a EXCEPT !.failed = @ \cup {server}]
              ELSE clearLoop_StopAtFirst([a EXCEPT !.entries[key] = NoRec],
                                         todo \ {server}, F)

\* The loop of KeychainTokenStorage.clearAll over the listed accounts todo:
\* this.deleteCredentials(server) for each, an error (keytar throws for the
\* accounts in F, or answers false) collected and the loop going on.
RECURSIVE clearLoop(_, _, _)
clearLoop(t, todo, F) ==
  IF todo = {}
    THEN t
    ELSE LET server == CHOOSE k \in todo : TRUE
             key == sanitizeServerName(server)
             a == [t EXCEPT !.attempted = @ \cup {server}]
         IN IF server \in F \/ a.entries[key] = NoRec
              THEN clearLoop([a EXCEPT !.failed = @ \cup {server}],
                             todo \ {server}, F)
              ELSE clearLoop([a EXCEPT !.entries[key] = NoRec],
                             todo \ {server}, F)

\* Variant of clearAll whose file backend rethrows ENOENT.
clearAll_ThrowsOnAbsent(b, t, F) ==
  IF b = "keychain"
    THEN LET r == clearLoop([t EXCEPT !.failed = {}, !.attempted = {}],
                            Stored(t.entries), F)
         IN [r EXCEPT !.res = IF r.failed # {} THEN "combined_error" ELSE "ok"]
    ELSE IF t.file = "absent"
      THEN [t EXCEPT !.res = "io_error", !.failed = {}, !.attempted = {}]
      ELSE [t EXCEPT !.res = "ok", !.entries = NoEntries, !.file = "absent",
                     !.failed = {}, !.attempted = {}]

\* FileTokenStorage.clearAll: unlink the token file, ENOENT ignored.
\* KeychainTokenStorage.clearAll: list the accounts, delete each, and throw
\* one error made of the collected ones when there is any.
clearAll(b, t, F) ==
  IF b = "keychain"
    THEN LET r == clearLoop([t EXCEPT !.failed = {}, !.attempted = {}],
                            Stored(t.entries), F)
         IN [r EXCEPT !.res = IF r.failed # {} THEN "combined_error" ELSE "ok"]
    ELSE [t EXCEPT !.res = "ok", !.entries = NoEntries, !.file = "absent",
                   !.failed = {}, !.attempted = {}]

\* The records handed to setCredentials: without a token, with a token
\* that has neither value, without a tokenType, and valid ones.
StTokens ==
  {NoRec}
    \cup [accessToken : {"", "tok1"}, refreshToken : {"", "r1"},
          tokenType : {"", "Bearer"}, scope : {FullScope},
          expiresAt : {ExpLater}]

StRecords ==
  [serverName : ServerNames, token : StTokens, clientId : {""},
   updatedAt : {0}]

\* The start of an operation: what the last one was, and what is stored.
StBegin(t, o, a) ==
  [t EXCEPT !.prevOp = t.op, !.prevRes = t.res, !.op = o, !.arg = a,
            !.before = t.entries, !.beforeFile = t.file, !.nOps = @ + 1,
            !.failed = {}, !.attempted = {}, !.out = NoRec, !.input = NoRec]

StUnchanged ==
  UNCHANGED <<client, clients, store, backend, now, nCalls, pr, lis, tev,
              nTev, published, sinceClear, hy, lg, kc, cf>>

\* A caller runs setCredentials(rec) to its end.
StSet(rec) ==
  /\ ts.nOps < MaxOps
  /\ ts' = [setCredentials(backend, StBegin(ts, "set", rec.serverName), rec, now)
              EXCEPT !.pc = "idle"]
  /\ StUnchanged

\* A caller runs getCredentials(name) to its end.
StGet(name) ==
  /\ ts.nOps < MaxOps
  /\ LET t == StBegin(ts, "get", name)
     IN ts' = IF backend = "encrypted_file" /\ loadThrows(t)
                THEN [t EXCEPT !.res = "io_error"]
                ELSE [t EXCEPT !.res = "ok",
                               !.out = getCredentials(backend, t, name)]
  /\ StUnchanged

\* A caller runs deleteCredentials(name) to its end.
StDelete(name) ==
  /\ ts.nOps < MaxOps
  /\ ts' = deleteCredentials(backend, StBegin(ts, "delete", name), name)
  /\ StUnchanged

\* A caller runs clearAll() to its end, keytar failing on the accounts F.
StClearAll(F) ==
  /\ ts.nOps < MaxOps
  /\ backend = "encrypted_file" => F = {}
  /\ ts' = clearAll(backend, StBegin(ts, "clearAll", ""), F)
  /\ StUnchanged

\* The entries of backend b after setCredentials of valid records named
\* "a_b" and "main-account".
TwoEntries(b) ==
  setCredentials(b, TsFresh("ok", EarlierEntries(b)),
                 [serverName |-> MAIN_ACCOUNT_KEY,
                  token |-> [accessToken |-> "tok0", refreshToken |-> "r0",
                             tokenType |-> "Bearer", scope |-> FullScope,
                             expiresAt |-> ExpSoon],
                  clientId |-> "", updatedAt |-> 0], 0).entries

\* A bound backend: the keychain with no, one or two entries; the token file
\* in any of its states, with no, one or two entries when it is intact.
InitStore ==
  /\ client = 0
  /\ clients = [c \in ClientIds |-> EmptyCreds]
  /\ store = NoRec
  /\ backend \in {"keychain", "encrypted_file"}
  /\ now = AUTH_TIMEOUT_MS
  /\ nCalls = 0
  /\ pr = [p \in Procs |-> Idle]
  /\ lis = [c \in ClientIds |-> "none"]
  /\ tev = TevIdle
  /\ nTev = 0
  /\ published = {}
  /\ sinceClear = FALSE
  /\ hy = HyBound(backend)
  /\ lg = LgFresh(<<>>, "localhost", TRUE)
  /\ kc = KcFresh(TRUE)
  /\ cf = CfIdle
  /\ \E f \in FileStates,
        e \in {NoEntries, EarlierEntries(backend), TwoEntries(backend)} :
       /\ backend = "keychain" => f = "ok"
       /\ f # "ok" => e = NoEntries
       /\ (f = "ok" /\ backend = "encrypted_file") => e # NoEntries
       /\ ts = TsFresh(f, e)

NextStore ==
  \/ \E rec \in StRecords : StSet(rec)
  \/ \E name \in ServerNames : StGet(name)
  \/ \E name \in ServerNames : StDelete(name)
  \/ \E F \in SUBSET Stored(ts.entries) : StClearAll(F)

SpecStore == InitStore /\ [][NextStore]_vars

\* ------------------------------------------------- the credential bridge
\* The Google credentials handed to saveCredentials: with and without each
\* token, with a token_type or none, with an expiry_date that is absent, zero,
\* NaN (parseInt of a parameter that is not a number), null or a time.
ExternalCreds ==
  [access_token : {"", "tok1"}, refresh_token : {"", "r1"},
   scope : {<<>>, FullScope}, token_type : {"", "MAC"},
   expiry_date : {Undefined, 0, NaN, Null, ExpLater}]

\* Entries found under MAIN_ACCOUNT_KEY that setCredentials did not write:
\* one without a token, and tokens with a tokenType and neither value, with
\* an access value only, with a refresh value only.
ForeignRecords ==
  {[serverName |-> MAIN_ACCOUNT_KEY, token |-> NoRec, clientId |-> "",
    updatedAt |-> 0]}
  \cup
  {[serverName |-> MAIN_ACCOUNT_KEY,
    token |-> [accessToken |-> a, refreshToken |-> r, tokenType |-> "Bearer",
               scope |-> FullScope, expiresAt |-> e],
    clientId |-> "", updatedAt |-> 0] :
     a \in {"", "tok0"}, r \in {"", "r0"}, e \in {Undefined, ExpSoon}}

\* saveCredentials(c): storage.setCredentials of the record built from c.
BrSave(c) ==
  /\ ts.nSets < MaxSets
  /\ ts.nOps < MaxOps
  /\ ts' = [setCredentials(backend,
                           [StBegin(ts, "save", MAIN_ACCOUNT_KEY)
                              EXCEPT !.ext = c],
                           mcpCredentials(c, now), now)
              EXCEPT !.pc = "idle"]
  /\ StUnchanged

\* loadCredentials(): storage.getCredentials(MAIN_ACCOUNT_KEY) in Google's
\* shape.
BrLoad ==
  /\ ts.nOps < MaxOps
  /\ LET t == StBegin(ts, "load", MAIN_ACCOUNT_KEY)
     IN ts' = [t EXCEPT !.res = "ok",
                        !.out = googleCreds(getCredentials(backend, t,
                                                           MAIN_ACCOUNT_KEY))]
  /\ StUnchanged

\* A bound backend with nothing stored, with entries of other servers, or
\* with an entry under MAIN_ACCOUNT_KEY.
InitBridge ==
  /\ client = 0
  /\ clients = [c \in ClientIds |-> EmptyCreds]
  /\ store = NoRec
  /\ backend \in {"keychain", "encrypted_file"}
  /\ now = AUTH_TIMEOUT_MS
  /\ nCalls = 0
  /\ pr = [p \in Procs |-> Idle]
  /\ lis = [c \in ClientIds |-> "none"]
  /\ tev = TevIdle
  /\ nTev = 0
  /\ published = {}
  /\ sinceClear = FALSE
  /\ hy = HyBound(backend)
  /\ lg = LgFresh(<<>>, "localhost", TRUE)
  /\ kc = KcFresh(TRUE)
  /\ cf = CfIdle
  /\ \/ \E e \in {NoEntries, EarlierEntries(backend), TwoEntries(backend)} :
          ts = TsFresh("ok", e)
     \/ \E rec \in ForeignRecords :
          ts = TsFresh("ok", [EarlierEntries(backend) EXCEPT
                                ![StorageKey(backend, MAIN_ACCOUNT_KEY)] = rec])

NextBridge ==
  \/ \E c \in ExternalCreds : BrSave(c)
  \/ BrLoad

SpecBridge == InitBridge /\ [][NextBridge]_vars

\* A caller runs setCredentials(rec) to its end.
TsSet(rec) ==
  /\ ts.pc = "idle"
  /\ ts.nSets < MaxSets
  /\ ts' = setCredentials(backend, ts, rec, now)
  /\ UNCHANGED <<client, clients, store, backend, now, nCalls, pr, lis, tev,
                 nTev, published, sinceClear, hy, lg, kc, cf>>

\* The caller then runs getCredentials(rec.serverName) to its end.
TsGet ==
  /\ ts.pc = "set_done"
  /\ ts' = [ts EXCEPT !.pc = "got",
                      !.out = getCredentials(backend, ts, ts.input.serverName)]
  /\ UNCHANGED <<client, clients, store, backend, now, nCalls, pr, lis, tev,
                 nTev, published, sinceClear, hy, lg, kc, cf>>

\* The caller is done with the pair of calls.
TsReturn ==
  /\ ts.pc \in {"got", "threw"}
  /\ ts' = [ts EXCEPT !.pc = "idle"]
  /\ UNCHANGED <<client, clients, store, backend, now, nCalls, pr, lis, tev,
                 nTev, published, sinceClear, hy, lg, kc, cf>>

\* A bound backend, empty or with an earlier entry, its token file intact or
\* corrupt, at some time of day.
InitRoundTrip ==
  /\ client = 0
  /\ clients = [c \in ClientIds |-> EmptyCreds]
  /\ store = NoRec
  /\ backend \in {"keychain", "encrypted_file"}
  /\ now \in {AUTH_TIMEOUT_MS, 2 * AUTH_TIMEOUT_MS}
  /\ nCalls = 0
  /\ pr = [p \in Procs |-> Idle]
  /\ lis = [c \in ClientIds |-> "none"]
  /\ tev = TevIdle
  /\ nTev = 0
  /\ published = {}
  /\ sinceClear = FALSE
  /\ hy = HyBound(backend)
  /\ lg = LgFresh(<<>>, "localhost", TRUE)
  /\ kc = KcFresh(TRUE)
  /\ cf = CfIdle
  /\ \E f \in {"ok", "corrupt"}, e \in {NoEntries, EarlierEntries(backend)} :
       /\ f = "corrupt" => backend = "encrypted_file"
       /\ ts = TsFresh(f, e)

NextRoundTrip ==
  \/ \E rec \in TsRecords : TsSet(rec)
  \/ TsGet
  \/ TsReturn

SpecRoundTrip == InitRoundTrip /\ [][NextRoundTrip]_vars

\* ------------------------------------------ specifications of the login parts
\* An AuthManager at rest, with nothing stored.
AtRest ==
  /\ client = 0
  /\ clients = [c \in ClientIds |-> EmptyCreds]
  /\ store = NoRec
  /\ backend = "encrypted_file"
  /\ now = 0
  /\ nCalls = 0
  /\ pr = [p \in Procs |-> Idle]
  /\ lis = [c \in ClientIds |-> "none"]
  /\ tev = TevIdle
  /\ nTev = 0
  /\ published = {}
  /\ sinceClear = FALSE
  /\ hy = HyBound(backend)
  /\ ts = TsFresh("ok", NoEntries)

\* Two callers of getAuthenticatedClient() that need the interactive login,
\* in every environment.
InitLogin ==
  /\ AtRest
  /\ \E ps \in PortStrs, h \in Hosts, g \in BOOLEAN : lg = LgFresh(ps, h, g)
  /\ kc = KcFresh(TRUE)
  /\ cf = CfIdle

NextLogin ==
  \/ \E q \in LProcs : LStart(q)
  \/ \E q \in LProcs : \E n \in EphemeralPorts : LCheckBind(q, n)
  \/ \E q \in LProcs : LBind(q)
  \/ \E q \in LProcs : LOpened(q)
  \/ \E q \in LProcs : \E exchanged \in BOOLEAN : LConsent(q, exchanged)
  \/ \E q \in LProcs : LDeliver(q)
  \/ \E q \in LProcs : LSettle(q)
  \/ \E q \in LProcs : LTimeout(q)

SpecLogin == InitLogin /\ [][NextLogin]_vars

\* One KeychainTokenStorage, with or without the keytar module.
InitKeychain ==
  /\ AtRest
  /\ lg = LgFresh(<<>>, "localhost", TRUE)
  /\ \E loads \in BOOLEAN : kc = KcFresh(loads)
  /\ cf = CfIdle

NextKeychain ==
  \/ \E k \in KProcs : KCheck(k)
  \/ \E k \in KProcs : KImport(k)
  \/ \E k \in KProcs : \E ok \in BOOLEAN : KSet(k, ok)
  \/ \E k \in KProcs : \E r \in Retrieved : KGet(k, r)
  \/ \E k \in KProcs : \E d \in {"true", "false", "throws"} : KDelete(k, d)
  \/ \E k \in KProcs : KReturn(k)

SpecKeychain == InitKeychain /\ [][NextKeychain]_vars

\* The exchange endpoint on its own, for every code and state.
InitExchange ==
  /\ AtRest
  /\ lg = LgFresh(<<>>, "localhost", TRUE)
  /\ kc = KcFresh(TRUE)
  /\ cf = CfIdle

NextExchange ==
  \/ \E code \in {"", "code"} : \E state \in StateParams :
       CfRequest(code, state)
  \/ \E exchanged \in BOOLEAN : CfRespond(exchanged)
  \/ CfDone

SpecExchange == InitExchange /\ [][NextExchange]_vars

\* ------------------------------------------------------------- properties
\* The errors refreshToken() throws when a refresh fails.
RefreshErrors == {"refresh_failed", "no_refresh_token"}

\* A scope string that lacks a required scope.
LacksScope(sc) == \E i \in 1..Len(scopes) : \A j \in 1..Len(sc) : sc[j] # scopes[i]

\* C1: a clearAuth() called with no in-memory client and nothing stored under
\* the main-account key completes without an error.
C1_ClearAuthIdempotent ==
  \A p \in Procs :
    (pr[p].pc = "done" /\ pr[p].top = "ca" /\ pr[p].startClient = 0
       /\ pr[p].startStore = NoRec)
      => pr[p].res = "ok"

\* C2: a getAuthenticatedClient() started after a clearAuth() returned, with
\* no other getAuthenticatedClient() started in between, returns a client
\* only through the interactive login.
C2_ClearForcesLogin ==
  \A p \in Procs : (pr[p].gacOk /\ pr[p].mark) => pr[p].usedLogin

C4_RefreshTokenPreserved ==
  \A p \in Procs :
    (pr[p].pc = "done" /\ pr[p].top = "rt" /\ pr[p].res = "ok")
      => /\ pr[p].rtOk
         /\ client # 0
         /\ clients[client].refresh_token = pr[p].curRT
         /\ store # NoRec
         /\ store.token.refreshToken = pr[p].curRT
         /\ pr[p].startClient # 0
              => pr[p].curRT = pr[p].startCreds.refresh_token

C4_Witness ==
  \E p \in Procs :
    /\ pr[p].pc = "done" /\ pr[p].top = "rt" /\ pr[p].res = "ok"
    /\ pr[p].startClient # 0
    /\ pr[p].respRT = "r2"
    /\ store.token.refreshToken = "r0"

\* C5: a request to /oauth2callback whose state is not the CSRF token of the
\* login attempt rejects the waiting getAuthenticatedClient() with the CSRF
\* error: the request's tokens are not set on the client, nothing is stored
\* and the client does not become the in-memory client.
C5_CsrfRejection ==
  \A p \in Procs :
    (pr[p].req.path = "/oauth2callback" /\ pr[p].req.state # pr[p].cli)
      => /\ pr[p].pc = "done"
         /\ pr[p].res = "csrf_mismatch"
         /\ ~pr[p].cbSet
         /\ clients[pr[p].cli] = pr[p].waitCreds
         /\ store = pr[p].waitStore
         /\ client = pr[p].waitClient
         /\ client # pr[p].cli
         /\ lis[pr[p].cli] = "closed"

C5_Witness ==
  \E p \in Procs :
    /\ pr[p].req.path = "/oauth2callback"
    /\ pr[p].req.state \notin {0, pr[p].cli}
    /\ pr[p].req.access_token = "tok1"
    /\ pr[p].res = "csrf_mismatch"

\* C6: when a proactive refresh of a getAuthenticatedClient() fails, the
\* in-memory client is dropped, the stored entry is deleted and the call goes
\* to the interactive login; the refresh error never is the call's outcome.
C6_ProactiveFailureFallsThrough ==
  \A p \in Procs :
    (pr[p].top = "gac" /\ pr[p].tpFailed)
      => /\ pr[p].res \notin RefreshErrors \cup {"not_found", "type_error"}
         /\ pr[p].pc \in {"tp_del", "tp_unlink", "g_load"} \/ pr[p].usedLogin
         /\ pr[p].pc \in {"tp_del", "tp_unlink", "g_load", "g_port", "g_wait"}
              => client = 0
         /\ pr[p].pc \in {"g_load", "g_port", "g_wait"} => store = NoRec
         /\ pr[p].gacOk => pr[p].cbSet

C6_Witness ==
  \E p \in Procs :
    /\ pr[p].top = "gac" /\ pr[p].tpFailed
    /\ pr[p].pc = "g_wait"
    /\ pr[p].startClient # 0
    /\ client = 0 /\ store = NoRec

\* C7: one getAuthenticatedClient() attempts at most one proactive refresh.
C7_AtMostOneProactiveRefresh ==
  \A p \in Procs : pr[p].attempts <= 1

\* C8 as stated: whenever refreshToken() ends with a refresh error, the
\* in-memory client has been dropped.
C8_RefreshFailureDropsClient ==
  \A p \in Procs :
    (pr[p].pc = "done" /\ pr[p].res \in RefreshErrors) => client = 0

\* C8 amended: a refresh error is the outcome of a direct refreshToken()
\* only, never of a getAuthenticatedClient(); the failed refreshToken()
\* leaves the in-memory client, its credentials and the stored entry as they
\* were when the refresh began.
C8_RefreshFailureSurfacedClientKept ==
  \A p \in Procs :
    (pr[p].pc = "done" /\ pr[p].res \in RefreshErrors)
      => /\ pr[p].top = "rt"
         /\ client # 0
         /\ pr[p].res = "no_refresh_token"
              <=> clients[client].refresh_token = ""
         /\ pr[p].startClient # 0
              => /\ client = pr[p].startClient
                 /\ clients[client] = pr[p].startCreds
                 /\ store = pr[p].startStore
         /\ pr[p].startClient = 0 => pr[p].gacOk /\ client = pr[p].cli

C8_Witness ==
  \E p \in Procs :
    /\ pr[p].pc = "done" /\ pr[p].top = "rt"
    /\ pr[p].res = "refresh_failed"
    /\ pr[p].startClient # 0
    /\ client = pr[p].startClient

\* C9: a getAuthenticatedClient() that starts with no in-memory client and
\* nothing stored goes to the interactive login; a callback with the matching
\* state, an access_token and an expiry_date makes it store the callback's
\* token under the main-account key, set its client as the in-memory client
\* and return that client.
C9_ColdStartLogin ==
  \A p \in Procs :
    (pr[p].top = "gac" /\ pr[p].startClient = 0 /\ pr[p].startStore = NoRec)
      => /\ pr[p].pc # "g_load" => pr[p].usedLogin
         /\ (/\ pr[p].req.path = "/oauth2callback"
             /\ pr[p].req.state = pr[p].cli
             /\ pr[p].req.error = ""
             /\ pr[p].req.access_token # ""
             /\ pr[p].req.expiry_date # <<>>)
              => /\ pr[p].pc \in {"g_save", "done"}
                 /\ clients[pr[p].cli].access_token = pr[p].req.access_token
                 /\ pr[p].pc = "done"
                      => /\ pr[p].res = "ok"
                         /\ pr[p].ret = pr[p].cli
                         /\ client = pr[p].cli
                         /\ store # NoRec
                         /\ store.serverName = MAIN_ACCOUNT_KEY
                         /\ store.token.accessToken = pr[p].req.access_token

C9_Witness ==
  \E p \in Procs :
    /\ pr[p].top = "gac" /\ pr[p].startClient = 0 /\ pr[p].startStore = NoRec
    /\ pr[p].pc = "done" /\ pr[p].res = "ok"
    /\ pr[p].req.state = pr[p].cli
    /\ clients[pr[p].ret].access_token = "tok1"
    /\ store.token.accessToken = "tok1"

\* C10: the step that rejects a waiting getAuthenticatedClient() with the
\* timeout error is taken only AUTH_TIMEOUT_MS after the wait began and with
\* no callback taken; it changes neither the stored entry nor the in-memory
\* client, and it leaves the listener of the attempt open.
C10_LoginTimeout ==
  [][\A p \in Procs :
       (pr[p].pc = "g_wait" /\ pr'[p].pc = "done" /\ pr'[p].res = "timeout")
         => /\ now >= pr[p].deadline
            /\ pr[p].deadline >= AUTH_TIMEOUT_MS
            /\ pr'[p].req = NoReq /\ ~pr'[p].cbSet
            /\ store' = store /\ store = pr[p].waitStore
            /\ client' = client /\ client # pr[p].cli
            /\ clients' = clients
            /\ lis[pr[p].cli] = "open" /\ lis' = lis]_vars

C10_Witness ==
  \E p \in Procs :
    /\ pr[p].pc = "done" /\ pr[p].res = "timeout"
    /\ lis[pr[p].cli] = "open"
    /\ now = AUTH_TIMEOUT_MS

\* C11: every request the listener of a login attempt handles, whatever the
\* handler's exit path, finds the listener open and leaves it closed; a
\* closed listener stays closed, and no waiting call is settled through it.
C11_ListenerSingleShot ==
  [][\A c \in ClientIds :
       /\ (\E req \in Requests(c) : Callback(c, req))
            => lis[c] = "open" /\ lis'[c] = "closed"
       /\ lis[c] = "closed"
            => /\ lis'[c] = "closed"
               /\ \A p \in Procs :
                    (pr[p].cli = c /\ pr[p].pc = "g_wait")
                      => pr'[p].req = NoReq]_vars

C11_Witness ==
  \E p \in Procs :
    /\ pr[p].pc = "done"
    /\ pr[p].res \in {"no_tokens", "unexpected_request"}
    /\ lis[pr[p].cli] = "closed"

\* C12: a getAuthenticatedClient() that starts with an in-memory client
\* carrying a refresh token and not expiring soon ends in its first step: it
\* returns that client, with no refresh attempt, no load and no login, and
\* changes neither the in-memory client, any client's credentials, the stored
\* entry, the listeners nor the "tokens" listener.
C12_FastPathFrame ==
  [][\A p \in Procs :
       (/\ pr[p].pc = "idle" /\ pr'[p].top = "gac"
        /\ client # 0
        /\ clients[client].refresh_token # ""
        /\ ~isTokenExpiringSoon(clients[client], now))
         => /\ pr'[p].pc = "done" /\ pr'[p].res = "ok"
            /\ pr'[p].ret = client
            /\ pr'[p].attempts = 0 /\ ~pr'[p].usedLogin
            /\ pr'[p].loaded = NoRec
            /\ client' = client /\ clients' = clients
            /\ store' = store /\ lis' = lis /\ tev' = tev]_vars

C12_Witness ==
  \E p \in Procs :
    /\ pr[p].pc = "done" /\ pr[p].top = "gac" /\ pr[p].res = "ok"
    /\ pr[p].startClient # 0 /\ pr[p].ret = pr[p].startClient
    /\ pr[p].startCreds.refresh_token # ""
    /\ ~isTokenExpiringSoon(pr[p].startCreds, now)
    /\ pr[p].attempts = 0 /\ ~pr[p].usedLogin

\* C13: getAuthenticatedClient() attempts a proactive refresh of the token
\* it examines (the in-memory client's, else the loaded one) exactly when the
\* token's expiry_date is present, a number, and less than now + 5 minutes:
\* it does at now + 4min59s, it does not at now + 5min, at now + 5min01s or
\* when the expiry_date is absent.
C13_ExpiryBoundary ==
  \A p \in Procs :
    (pr[p].top = "gac" /\ pr[p].pc \notin {"idle", "g_load"})
      => LET e == IF pr[p].startClient # 0
                    THEN pr[p].startCreds.expiry_date
                    ELSE pr[p].loaded.expiry_date
         IN /\ pr[p].attempts = 1
                 <=> (e \notin {Undefined, 0, NaN} /\ e < now + 5 * 60 * 1000)
            /\ e = now + 299 * 1000 => pr[p].attempts = 1
            /\ e \in {now + 300 * 1000, now + 301 * 1000} => pr[p].attempts = 0
            /\ e \in {Undefined, 0} => pr[p].attempts = 0
            /\ pr[p].attempts = 0 => pr[p].pc = "done" /\ pr[p].res = "ok"
            /\ pr[p].attempts = 1 => pr[p].pc = "r_fetch"

C13_Witness ==
  \E p \in Procs :
    /\ pr[p].top = "gac" /\ pr[p].pc = "done" /\ pr[p].attempts = 0
    /\ pr[p].startClient # 0
    /\ pr[p].startCreds.expiry_date = now + 300 * 1000

\* C14: a refreshToken() that starts with no in-memory client first runs
\* getAuthenticatedClient() from its storage path.  In the step in which that
\* call returns, the returned client becomes the in-memory client and, when
\* it has no refresh token, refreshToken() ends at once with the "No refresh
\* token available" error; it goes to the fetch only with a refresh token.
C14_BootstrapThenNoRefreshToken ==
  [][\A p \in Procs :
       /\ (pr[p].pc = "idle" /\ pr'[p].top = "rt" /\ client = 0)
            => pr'[p].pc = "g_load" /\ ~pr'[p].gacOk
       /\ (pr[p].top = "rt" /\ ~pr[p].gacOk /\ pr'[p].gacOk)
            => /\ client' # 0
               /\ pr'[p].site = "none"
               /\ IF clients'[client'].refresh_token = ""
                    THEN /\ pr'[p].pc = "done"
                         /\ pr'[p].res = "no_refresh_token"
                         /\ pr'[p].respRT = pr[p].respRT
                    ELSE /\ pr'[p].pc = "r_fetch"
                         /\ pr'[p].curRT = clients'[client'].refresh_token
       /\ (pr'[p].top = "rt" /\ pr'[p].pc = "r_fetch" /\ pr'[p].site = "none"
             /\ pr'[p].startClient = 0)
            => pr'[p].gacOk /\ pr'[p].curRT # ""
       /\ (pr[p].res # "no_refresh_token" /\ pr'[p].res = "no_refresh_token")
            => pr[p].pc # "r_fetch" /\ pr'[p].top = "rt"]_vars

C14_Witness ==
  \E p \in Procs :
    /\ pr[p].pc = "done" /\ pr[p].top = "rt" /\ pr[p].startClient = 0
    /\ pr[p].gacOk /\ pr[p].usedLogin
    /\ pr[p].res = "no_refresh_token"
    /\ client = pr[p].cli /\ clients[client].refresh_token = ""

\* C15: whenever nothing of the AuthManager is in flight and there is an
\* in-memory client, the stored entry exists and holds the client's access
\* token and refresh token.
C15_SessionMirrorsStorage ==
  (Quiet /\ client # 0)
    => /\ store # NoRec
       /\ store.token.accessToken = clients[client].access_token
       /\ store.token.refreshToken = clients[client].refresh_token

\* C16: every getAuthenticatedClient() and every refreshToken() in flight
\* eventually resolves or rejects.
C16_CallsTerminate ==
  \A p \in Procs :
    (pr[p].top \in {"gac", "rt"} /\ pr[p].pc # "done") ~> (pr[p].pc = "done")

C16_Witness ==
  \E p \in Procs :
    /\ pr[p].pc = "done" /\ pr[p].res = "timeout"
    /\ pr[p].tpFailed
    /\ lis[pr[p].cli] = "open"

\* C17: backend selection is made at most once per HybridTokenStorage: however
\* many callers start their first operation while none is bound,
\* initializeStorage runs exactly once, the keychain self-test at most once
\* (once for each KeychainTokenStorage constructed, of which there is at most
\* one), every caller that gets a backend gets the one bound backend, and
\* after a failed self-test that backend is the File backend.
C17_SelectionAtMostOnce ==
  /\ hy.nInit <= 1
  /\ hy.nProbe <= 1
  /\ hy.nProbe = hy.nKeychain
  /\ (hy.nCalls > 0 \/ hy.promise # "none") => hy.nInit = 1
  /\ \A q \in HProcs :
       hy.call[q].got # "none" =>
         /\ hy.call[q].got = backend
         /\ hy.probeRes \in {"negative", "probe_throws", "import_throws"}
              => hy.call[q].got = "encrypted_file"

\* Three callers started while no backend was bound, the self-test failed, and
\* all three hold the File backend.
C17_Witness ==
  /\ hy.nInit = 1
  /\ hy.nProbe = 1
  /\ hy.probeRes \in {"negative", "probe_throws"}
  /\ hy.nCalls = 3
  /\ \A q \in HProcs : hy.call[q].pc = "op" /\ hy.call[q].got = "encrypted_file"

\* C18: once the selector is bound, no step changes the bound backend (storage
\* and storageType), runs a self-test or runs initializeStorage again; an
\* operation that fails on the bound Keychain backend ends with the error at
\* its caller.
C18_BoundBackendNeverChanges ==
  [][backend # "none" =>
       /\ backend' = backend
       /\ hy'.nProbe = hy.nProbe
       /\ hy'.nKeychain = hy.nKeychain
       /\ hy'.nInit = hy.nInit
       /\ \A q \in HProcs :
            (hy.call[q].pc = "op" /\ hy'.call[q].pc = "done")
              => hy'.call[q].res \in {"ok", "error"}
                 /\ hy'.call[q].got = backend]_vars

\* An operation started after the binding to Keychain failed; its caller has
\* the error and the selector is still bound to Keychain.
C18_Witness ==
  /\ backend = "keychain"
  /\ hy.nProbe = 1
  /\ hy.nCalls >= 2
  /\ \E q \in HProcs :
       /\ hy.call[q].pc = "done"
       /\ hy.call[q].got = "keychain"
       /\ hy.call[q].res = "error"

\* C19: with the force-file override the Keychain backend is never constructed
\* or probed and the bound backend is File; without it the bound backend is
\* Keychain exactly when the self-test succeeded; a negative self-test or an
\* exception while loading or probing the keychain binds File, and no caller
\* gets an error of the selection unless FileTokenStorage.create itself threw.
C19_SelectionAlgorithm ==
  /\ hy.forceFile => hy.nKeychain = 0 /\ hy.nProbe = 0 /\ hy.probeRes = "none"
  /\ backend # "none" =>
       /\ hy.forceFile => backend = "encrypted_file"
       /\ ~hy.forceFile => (backend = "keychain" <=> hy.probeRes = "ok")
  /\ hy.promise = "resolved" <=> backend # "none"
  /\ (hy.probeRes = "ok") => hy.promise = "resolved"
  /\ \A q \in HProcs :
       hy.call[q].res = "init_error" => hy.promise = "rejected"

\* Without the override the self-test threw, the selector is bound to File and
\* a caller that waited for the selection finished its operation without
\* error.
C19_Witness ==
  /\ ~hy.forceFile
  /\ hy.probeRes \in {"probe_throws", "import_throws", "negative"}
  /\ backend = "encrypted_file"
  /\ \E q \in HProcs :
       /\ hy.call[q].pc = "done"
       /\ hy.call[q].got = "encrypted_file"
       /\ hy.call[q].res = "ok"

\* The returned record equals the input in every field but updatedAt.
EqualButUpdatedAt(a, b) ==
  [a EXCEPT !.updatedAt = 0] = [b EXCEPT !.updatedAt = 0]

\* C20 as stated: setCredentials(record) followed by
\* getCredentials(record.serverName) returns, for every valid record and
\* either backend, a record equal to the input in all fields except
\* updatedAt, with an updatedAt greater than or equal to the input's.
C20_RoundTripAsStated ==
  ts.pc = "got" =>
    /\ ts.out # NoRec
    /\ EqualButUpdatedAt(ts.out, ts.input)
    /\ ts.out.updatedAt >= ts.input.updatedAt

\* C20, amended: for every valid record whose expiresAt is absent or a finite
\* number and either backend, setCredentials(record) followed by
\* getCredentials(record.serverName) returns a record equal to the input in
\* all fields except updatedAt, and the returned updatedAt is the clock at the
\* time of the setCredentials call: greater than or equal to the input's
\* exactly when the input's is not later than that clock.  A NaN expiresAt
\* comes back as null.
C20_RoundTrip ==
  ts.pc = "got" =>
    /\ ts.out # NoRec
    /\ ts.out.updatedAt = ts.setAt
    /\ (ts.out.updatedAt >= ts.input.updatedAt) <=> (ts.input.updatedAt <= ts.setAt)
    /\ EqualButUpdatedAt([ts.out EXCEPT !.token.expiresAt = 0],
                         [ts.input EXCEPT !.token.expiresAt = 0])
    /\ ts.out.token.expiresAt =
         IF ts.input.token.expiresAt = NaN THEN Null
                                           ELSE ts.input.token.expiresAt

\* A record whose name is not a safe key, with an expiresAt and an older
\* updatedAt, was set on a Keychain backend that held an entry under the same
\* key, and read back.
C20_Witness ==
  /\ ts.pc = "got"
  /\ ts.out # NoRec
  /\ ts.input.serverName = "a/b"
  /\ ts.input.token.expiresAt = ExpLater
  /\ ts.input.updatedAt < ts.setAt
  /\ ts.out.updatedAt = ts.setAt
  /\ backend = "keychain"
  /\ ts.nSets = 1
  /\ \A k \in StorageKeys : ts.entries[k] # NoRec => ts.entries[k] = ts.out

\* C21: clearAll() is idempotent on both backends: it returns without error
\* when nothing is stored, a clearAll() that follows a clearAll() which
\* returned does not raise, it raises only when a deletion failed, and after
\* it returned listServers() is empty.
C21_ClearAllIdempotent ==
  ts.op = "clearAll" =>
    /\ (backend = "keychain" /\ Stored(ts.before) = {}) => ts.res = "ok"
    /\ (backend = "encrypted_file"
          /\ (ts.beforeFile = "absent" \/ ts.before = NoEntries))
         => ts.res = "ok"
    /\ (ts.prevOp = "clearAll" /\ ts.prevRes = "ok") => ts.res = "ok"
    /\ ts.res # "ok" => ts.failed # {}
    /\ ts.res = "ok" => ~loadThrows(ts) /\ listServers(backend, ts) = {}

\* Two entries were stored, a clearAll() removed them and the clearAll() after
\* it returned as well; and the same on a file that was absent.
C21_Witness ==
  /\ ts.op = "clearAll"
  /\ ts.prevOp = "clearAll"
  /\ ts.prevRes = "ok"
  /\ ts.res = "ok"
  /\ ts.before = NoEntries
  /\ ts.nOps = 2

\* C22: setCredentials throws the validation error for every record with an
\* empty serverName, without a token, with a token that has neither
\* accessToken nor refreshToken, or with an empty tokenType, and then what is
\* stored is what was stored before; no other record gets that error.
C22_InvalidRecordRejected ==
  ts.op = "set" =>
    LET r == ts.input
        invalid == \/ r.serverName = ""
                   \/ r.token = NoRec
                   \/ (r.token # NoRec /\ r.token.accessToken = ""
                         /\ r.token.refreshToken = "")
                   \/ (r.token # NoRec /\ r.token.tokenType = "")
    IN /\ invalid <=> ts.res = "validation_error"
       /\ invalid => ts.entries = ts.before /\ ts.file = ts.beforeFile

\* A record whose tokenType is empty was refused while an entry was stored.
C22_Witness ==
  /\ ts.op = "set"
  /\ ts.res = "validation_error"
  /\ ts.input.serverName = "a_b"
  /\ ts.input.token # NoRec
  /\ ts.input.token.accessToken # ""
  /\ ts.input.token.tokenType = ""
  /\ ts.before = ts.entries
  /\ Stored(ts.before) # {}

\* The keys of the entries stored for the server called name.
EntriesFor(e, name) == {k \in Stored(e) : e[k].serverName = name}

\* C23: deleteCredentials(serverName) throws the not-found error and leaves
\* the store unchanged when no entry is stored for serverName; when one is,
\* it removes that entry and leaves the entry of every other server as it
\* was.
C23_DeleteExactlyOne ==
  (ts.op = "delete" /\ ts.res # "io_error") =>
    LET mine == EntriesFor(ts.before, ts.arg)
    IN IF mine = {}
         THEN ts.res = "not_found" /\ ts.entries = ts.before
         ELSE /\ ts.res = "ok"
              /\ \A k \in StorageKeys :
                   ts.entries[k] = IF k \in mine THEN NoRec ELSE ts.before[k]

\* C24: FileTokenStorage.getCredentials returns null, without throwing, for
\* every corrupted content of the token file and for an absent file; only
\* other I/O errors reach the caller.
C24_CorruptionTolerated ==
  (ts.op = "get" /\ backend = "encrypted_file") =>
    /\ ts.beforeFile \in {"absent", "corrupt", "empty_part", "tag_flipped",
                          "bad_tag_length", "bad_iv"}
         => ts.res = "ok" /\ ts.out = NoRec
    /\ ts.beforeFile = "unreadable" => ts.res = "io_error"

\* C25: the Keychain clearAll() tries to delete every listed account, also
\* after a deletion failed, throws its one combined error exactly when a
\* deletion failed, and the accounts whose deletion succeeded are gone.
C25_ClearAllAggregates ==
  (ts.op = "clearAll" /\ backend = "keychain") =>
    /\ ts.attempted = Stored(ts.before)
    /\ ts.res = "combined_error" <=> ts.failed # {}
    /\ ts.res \in {"ok", "combined_error"}
    /\ ts.failed \subseteq ts.attempted
    /\ \A k \in ts.attempted \ ts.failed : ts.entries[k] = NoRec

\* Of two accounts one deletion failed and the other succeeded: the error was
\* thrown and the other account is gone.
C25_Witness ==
  /\ ts.op = "clearAll"
  /\ backend = "keychain"
  /\ ts.res = "combined_error"
  /\ ts.failed # {}
  /\ \E k \in ts.attempted \ ts.failed :
       ts.before[k] # NoRec /\ ts.entries[k] = NoRec
  /\ \E k \in ts.failed : ts.entries[k] # NoRec

\* The entry under MAIN_ACCOUNT_KEY before the operation.
MainBefore == ts.before[StorageKey(backend, MAIN_ACCOUNT_KEY)]

\* C26: loadCredentials() returns null when nothing is stored for the main
\* account and when the stored token has neither an access nor a refresh
\* value; otherwise it returns the stored token fields in the OAuth-client
\* shape, with expiry_date absent when the stored expiresAt is unset.
C26_LoadCredentials ==
  ts.op = "load" =>
    IF \/ MainBefore = NoRec
       \/ MainBefore.token = NoRec
       \/ (MainBefore.token.accessToken = ""
             /\ MainBefore.token.refreshToken = "")
      THEN ts.out = NoRec
      ELSE /\ ts.out # NoRec
           /\ ts.out.access_token = MainBefore.token.accessToken
           /\ ts.out.refresh_token = MainBefore.token.refreshToken
           /\ ts.out.token_type = MainBefore.token.tokenType
           /\ ts.out.scope = MainBefore.token.scope
           /\ ts.out.expiry_date = MainBefore.token.expiresAt
           /\ MainBefore.token.expiresAt = Undefined
                => ts.out.expiry_date # 0

\* What saveCredentials(c) followed by loadCredentials() returns of c, but for
\* the expiry_date.
BridgeKeeps(c, out) ==
  /\ out # NoRec
  /\ out.access_token = c.access_token
  /\ out.refresh_token = c.refresh_token
  /\ out.scope = c.scope
  /\ out.token_type = IF c.token_type # "" THEN c.token_type ELSE "Bearer"

\* saveCredentials writes under MAIN_ACCOUNT_KEY only, a record named so.
BridgeSingleKey ==
  /\ \A k \in StorageKeys \ {StorageKey(backend, MAIN_ACCOUNT_KEY)} :
       ts.entries[k] = ts.before[k]
  /\ ts.entries[StorageKey(backend, MAIN_ACCOUNT_KEY)].serverName
       = MAIN_ACCOUNT_KEY

\* The credentials carry an access or a refresh token.
CarriesToken(c) == c.access_token # "" \/ c.refresh_token # ""

C28_ListenerPreserves ==
  [][/\ (/\ tev.st = "save" /\ tev'.st = "idle" /\ tev'.err = "none"
         /\ tev.ev.refresh_token = "" /\ tev.before # NoRec)
          => /\ store' # NoRec
             /\ store'.token.accessToken = tev.ev.access_token
             /\ store'.token.scope = tev.ev.scope
             /\ store'.token.tokenType = tev.ev.token_type
             /\ store'.token.expiresAt = tev.ev.expiry_date
             /\ store'.token.refreshToken = tev.before.token.refreshToken
             /\ store'.token.refreshToken # ""
     /\ (tev.st # "idle" /\ tev'.st = "idle" /\ tev'.err # "none")
          => /\ store' = store /\ client' = client /\ clients' = clients
     /\ (tev.st # "idle" /\ tev' # tev)
          => /\ pr' = pr /\ lis' = lis
             /\ tev'.st \in {"idle", "save"}]_vars

C28_Witness ==
  /\ tev.st = "idle" /\ tev.err = "none"
  /\ tev.ev.access_token = "tok3" /\ tev.ev.refresh_token = ""
  /\ tev.before # NoRec /\ tev.before.token.refreshToken # ""
  /\ tev.before.token.accessToken # "tok3"
  /\ store.token.accessToken = "tok3"
  /\ store.token.refreshToken = tev.before.token.refreshToken

\* A listener whose save threw, and an operation that resolved after it.
C28_FailureWitness ==
  /\ tev.st = "idle" /\ tev.err \in {"load_failed", "save_failed"}
  /\ store = tev.before
  /\ \E p \in Procs : pr[p].pc = "done" /\ pr[p].res = "ok"

\* C29: one refreshToken(), with everything it runs before it returns, sends
\* at most one request to the refresh route.
C29_AtMostOneRequest ==
  \A p \in Procs : pr[p].top = "rt" => pr[p].sent <= 1

\* Where the second request comes from: the refreshToken() started without an
\* in-memory client and its bootstrap made a proactive refresh.
C29_OnlyAfterBootstrapRefresh ==
  \A p \in Procs :
    /\ pr[p].sent <= 2
    /\ pr[p].top = "gac" => pr[p].sent <= pr[p].attempts
    /\ (pr[p].top = "rt" /\ pr[p].sent = 2)
         => /\ pr[p].startClient = 0 /\ pr[p].attempts = 1
            /\ pr[p].loaded # NoRec
    /\ (pr[p].top = "rt" /\ pr[p].startClient # 0) => pr[p].sent <= 1

\* C30: a callback request handled by a listener on whose login promise no
\* call is waiting any more (the call was rejected with the login timeout)
\* changes neither this.client, nor the credentials of the in-memory client,
\* nor the stored entry, nor the state of any operation, whatever the request
\* carries; the client it may fill is not the in-memory client.
C30_LateCallbackInert ==
  [][\A c \in ClientIds :
       (/\ lis[c] = "open" /\ lis'[c] = "closed"
        /\ ~\E p \in Procs : pr[p].pc = "g_wait" /\ pr[p].cli = c)
         => /\ client' = client /\ client # c
            /\ client # 0 => clients'[client] = clients[client]
            /\ store' = store
            /\ pr' = pr
            /\ published' = published]_vars

\* A call rejected with the timeout whose listener then took a callback with
\* the matching state and valid tokens: the tokens are on the abandoned
\* client only.
C30_Witness ==
  \E p \in Procs :
    /\ pr[p].pc = "done" /\ pr[p].res = "timeout"
    /\ lis[pr[p].cli] = "closed"
    /\ clients[pr[p].cli].access_token = "tok1"
    /\ clients[pr[p].cli].refresh_token = "r1"
    /\ client # pr[p].cli
    /\ store = pr[p].waitStore
    /\ \A t \in {store} : t # NoRec => t.token.accessToken # "tok1"

\* C31: a caller that reaches the interactive login while the listener of
\* another caller's login is listening gets a port different from that
\* listener's, its own listener does not fail to bind, and no login of the
\* two is rejected by a request or a port of the other, with or without
\* OAUTH_CALLBACK_PORT.
C31_SecondListenerIndependent ==
  \A q \in LProcs :
    lg.call[q].peerOpen
      => /\ \A r \in LProcs \ {q} : lg.call[r].port # lg.call[q].port
         /\ lg.call[q].listener # "error"
         /\ \A r \in LProcs :
              lg.call[r].login \notin {"server_error", "csrf_mismatch"}

\* The same without the override: the check-bind never answers a port that a
\* listener of the process holds.
C31_EphemeralPortsDiffer ==
  \A q \in LProcs :
    (lg.call[q].peerOpen /\ lg.portStr = <<>>)
      => /\ \A r \in LProcs \ {q} : lg.call[r].port # lg.call[q].port
         /\ lg.call[q].listener # "error"
         /\ \A r \in LProcs :
              lg.call[r].login \notin {"server_error", "csrf_mismatch"}

\* Two listeners open at once on two ports.
C31_BothOpen ==
  /\ lg.call["l1"].listener = "open" /\ lg.call["l2"].listener = "open"
  /\ lg.call["l1"].port # lg.call["l2"].port
  /\ lg.call["l2"].peerOpen

\* A getAuthenticatedClient() (or the refreshToken() that awaited it) rejected
\* with error e by the request its listener handled: setCredentials was not
\* called, and the stored entry and the in-memory client are those found when
\* the wait began.
RejectedBy(p, e) ==
  /\ pr[p].pc = "done" /\ pr[p].res = e
  /\ ~pr[p].cbSet
  /\ clients[pr[p].cli] = pr[p].waitCreds
  /\ store = pr[p].waitStore
  /\ client = pr[p].waitClient /\ client # pr[p].cli

C33_InitFailureMemoized ==
  [][hy.promise = "rejected"
       => /\ hy'.promise = "rejected"
          /\ backend = "none" /\ backend' = "none"
          /\ hy'.nInit = hy.nInit /\ hy.nInit = 1
          /\ hy'.nKeychain = hy.nKeychain /\ hy'.nProbe = hy.nProbe
          /\ hy'.initPc = "done"
          /\ \A q \in HProcs :
               /\ hy'.call[q].pc # "op"
               /\ hy'.call[q].pc = "done" => hy'.call[q].res = "init_error"]_vars

\* More operations than callers were started and all of them have ended with
\* the error: one caller at least started again after the failure.
C33_Witness ==
  /\ hy.promise = "rejected"
  /\ hy.nCalls > Cardinality(HProcs)
  /\ hy.nInit = 1
  /\ \A q \in HProcs : hy.call[q].pc = "done" /\ hy.call[q].res = "init_error"

C35_ResolvedHasAccessToken ==
  \A p \in Procs :
    (pr[p].top = "gac" /\ pr[p].pc = "done" /\ pr[p].res = "ok")
      => clients[pr[p].ret].access_token # ""

\* C35, the login: a client resolved by the interactive login carries the
\* access token of the callback, the handler rejecting a callback without one.
C35_LoginHasAccessToken ==
  \A p \in Procs :
    (pr[p].top = "gac" /\ pr[p].pc = "done" /\ pr[p].res = "ok"
       /\ pr[p].usedLogin /\ pr[p].attempts = 0 /\ pr[p].respRT = "")
      => clients[pr[p].ret].access_token # ""

\* C35, the refresh: a stored entry with an access token, then a 2xx body
\* without one, and the caller gets a client with no access token.
C35_EmptiedByRefresh ==
  \E p \in Procs :
    /\ pr[p].top = "gac" /\ pr[p].pc = "done" /\ pr[p].res = "ok"
    /\ pr[p].startStore # NoRec
    /\ pr[p].startStore.token.accessToken # ""
    /\ clients[pr[p].ret].access_token = ""

\* The states the claim lets redirect: at most 4096 bytes, the base64 of a
\* JSON payload with manual false and a redirect URI whose hostname is
\* localhost or 127.0.0.1.
RedirectAllowed(state) ==
  /\ state # NoState
  /\ state.length <= 4096
  /\ state.kind = "base64"
  /\ state.of # JsonNull
  /\ "manual" \in DOMAIN state.of
  /\ state.of.manual = "false"
  /\ "uri" \in DOMAIN state.of
  /\ state.of.uri # EmptyUri
  /\ state.of.uri.parses
  /\ \E h \in {"localhost", "LOCALHOST", "127.0.0.1"} : state.of.uri.host = h

\* C36 as stated: a request whose state is not one of those is answered with
\* the manual page.
C36_RedirectOnlyLocalAsStated ==
  (cf.pc = "sent" /\ ~RedirectAllowed(cf.state))
    => cf.response.kind = "manual_page"

\* C36: the exchange endpoint redirects only for a state of at most 4096
\* bytes that decodes to a payload with manual false and a redirect URI on
\* localhost or 127.0.0.1, and then to that URI with the token fields; for
\* every other state it never redirects, and once the code was exchanged it
\* renders the manual page with the tokens.  A request without code is
\* answered 400 and a failed exchange 500, whatever the state.
C36_RedirectOnlyLocal ==
  cf.pc = "sent" =>
    /\ cf.response.kind = "redirect" =>
         /\ RedirectAllowed(cf.state)
         /\ cf.exchanged
         /\ cf.response.status = 302
         /\ cf.response.location.host \in {"localhost", "127.0.0.1"}
         /\ cf.response.location.port = cf.state.of.uri.port
         /\ cf.response.location.tokens = ExchangedTokens
    /\ (cf.exchanged /\ RedirectAllowed(cf.state))
         => cf.response.kind = "redirect"
    /\ (cf.exchanged /\ ~RedirectAllowed(cf.state))
         => /\ cf.response.kind = "manual_page"
            /\ cf.response.status = 200
            /\ cf.response.credentials = ExchangedTokens
    /\ ~cf.exchanged
         => /\ cf.response.kind = "error"
            /\ cf.response.status = IF cf.code = "" THEN 400 ELSE 500

\* A state of exactly 4096 bytes naming the local listener was redirected
\* to it.
C36_Witness ==
  /\ cf.pc = "sent"
  /\ cf.response.kind = "redirect"
  /\ cf.state.length = MaxStateLength
  /\ cf.response.location.host = "localhost"
  /\ cf.response.location.tokens.access_token = "tok1"

\* A state naming another host, and one a byte too long, got the manual page.
C36_OtherHostWitness ==
  /\ cf.pc = "sent"
  /\ cf.response.kind = "manual_page"
  /\ cf.state # NoState
  /\ cf.state.kind = "base64"
  /\ cf.state.length <= MaxStateLength
  /\ cf.state.of # JsonNull
  /\ "uri" \in DOMAIN cf.state.of
  /\ cf.state.of.uri # EmptyUri
  /\ cf.state.of.uri.host = "localhost.evil.example"
  /\ "manual" \in DOMAIN cf.state.of
  /\ cf.state.of.manual = "false"

\* A call of the interactive login failed fast: rejected with the invalid
\* port error, no listener started, the browser not opened.
FailedFast(q) ==
  /\ lg.call[q].pc = "done" /\ lg.call[q].res = "invalid_port"
  /\ lg.call[q].listener = "none"
  /\ lg.call[q].state = NoState
  /\ ~lg.call[q].opened

\* A call of the interactive login used port n: its listener was started on
\* it and the redirect URI of its state, when the state has one, names it.
UsedPort(q, n) ==
  /\ lg.call[q].res # "invalid_port"
  /\ lg.call[q].listener # "none"
  /\ lg.call[q].port = n
  /\ lg.call[q].state # NoState
  /\ "uri" \in DOMAIN lg.call[q].state.of
       => lg.call[q].state.of.uri = localRedirectUri(lg.host, n)

\* C37: with OAUTH_CALLBACK_PORT set, a login whose value is not an integer in
\* 1..65535 fails fast, rejected with the invalid-port error before any
\* listener is started and before the browser is opened; a login whose value
\* is one uses exactly that port for its listener and in the redirect URI of
\* its state.
C37_PortOverride ==
  \A q \in LProcs :
    (lg.portStr # <<>> /\ lg.call[q].pc # "idle")
      => IF IsIntegerString(lg.portStr)
              /\ DigitsValue(lg.portStr, 0) \in 1..65535
           THEN UsedPort(q, DigitsValue(lg.portStr, 0))
           ELSE FailedFast(q)

\* C37, what the code validates: the number Number.parseInt reads at the
\* head of the value.  A login fails fast exactly when there is none or it
\* is outside 1..65535, and otherwise uses that number.
C37_ParsedPortValidated ==
  \A q \in LProcs :
    (lg.portStr # <<>> /\ lg.call[q].pc # "idle")
      => IF parseInt(lg.portStr) = NaN
           THEN FailedFast(q)
           ELSE IF parseInt(lg.portStr) \in 1..65535
             THEN UsedPort(q, parseInt(lg.portStr))
             ELSE FailedFast(q)

\* C37, the valid override at work: port 65535 is listened on and carried by
\* the state of a login whose browser was opened.
C37_ValidWitness ==
  \E q \in LProcs :
    /\ lg.portStr = <<6, 5, 5, 3, 5>>
    /\ lg.call[q].listener = "open" /\ lg.call[q].port = 65535
    /\ lg.call[q].opened
    /\ "uri" \in DOMAIN lg.call[q].state.of
    /\ lg.call[q].state.of.uri.port = 65535

\* The three steps of the probe all succeeded: setPassword resolved,
\* getPassword answered the identical value, deletePassword answered true.
ProbeSteps ==
  kc.setOk = "ok" /\ kc.retrieved = TestPassword /\ kc.deleted = "true"

\* C38: a check of the keychain answers available exactly when the write of
\* the probe entry, the read with the identical value and the delete all
\* succeeded, and unavailable when a step failed or threw or keytar did not
\* load; the result is cached, so the probe runs at most once on a
\* KeychainTokenStorage and every later check answers the first result
\* without probing.
C38_ProbeExactAndCached ==
  /\ kc.nProbe <= 1
  /\ kc.keychainAvailable # "null" => kc.keychainAvailable = kc.first
  /\ \A k \in KProcs :
       kc.call[k].pc = "done" =>
         /\ kc.call[k].res \in {"true", "false"}
         /\ kc.call[k].res = kc.first
         /\ kc.call[k].res = kc.keychainAvailable
         /\ kc.call[k].res = "true" <=> (kc.nProbe = 1 /\ ProbeSteps)

\* A later check answered the cached result of the one probe, available.
C38_Witness ==
  \E k \in KProcs :
    /\ kc.call[k].pc = "done" /\ ~kc.call[k].probed
    /\ kc.nChecks = MaxChecks /\ kc.nProbe = 1
    /\ kc.call[k].res = "true" /\ ProbeSteps

\* A later check answered unavailable, cached from a probe whose delete
\* answered false after an identical read.
C38_FailedDeleteWitness ==
  \E k \in KProcs :
    /\ kc.call[k].pc = "done" /\ ~kc.call[k].probed
    /\ kc.nChecks >= 2 /\ kc.nProbe = 1
    /\ kc.call[k].res = "false"
    /\ kc.setOk = "ok" /\ kc.retrieved = TestPassword /\ kc.deleted = "false"

============================================================================
